---- MODULE Spec2Model ----
(***************************************************************************)
(* The CPU execution driver of yuzu: the per-core run loop                 *)
(* (CoreManager::RunLoop / Reschedule), the single-threaded dispatcher     *)
(* (CpuManager::RunLoop) and the older multi-threaded manager              *)
(* (CpuCoreManager: StartThreads / RunCpuCore / Shutdown / RunLoop),       *)
(* together with the flags of the GDB stub the run loop consults.          *)
(*                                                                         *)
(* Spec    : CpuManager driving CoreManager slices on one host thread.     *)
(* SpecMC  : CpuCoreManager; the run loop is interleaved step by step      *)
(*           between the manager thread and the helper core threads.       *)
(* SpecSD  : CpuCoreManager start-up and shutdown with helper threads,     *)
(*           under the fairness of the host's thread scheduling.           *)
(***************************************************************************)
EXTENDS Integers, Sequences, FiniteSets

\* ------------------------------------------------------------------ sizes

NUM_CPU_CORES == 4
NUM_CORE_THREADS == 3

Cores == 0 .. (NUM_CPU_CORES - 1)

\* guest threads known to the scheduler (bound)
NumThreads == 1
\* largest configured gdbstub_loops value explored (bound)
MaxLoops == 2

NoThread == 0
Threads == 1 .. NumThreads
ThreadOrNull == {NoThread} \cup Threads

\* host threads: 0 is the manager (main) thread, h in 1..3 is the helper
\* thread created for cores[h]
MainThread == 0
HelperThreads == 1 .. NUM_CORE_THREADS
HostThreads == {MainThread} \cup HelperThreads

\* value of the lock when no host thread holds it
NoHolder == NUM_CPU_CORES

VARIABLES
    \* GDB stub
    server_enabled, connected, halt_flag, step_flags,
    \* scheduler: current thread of each core
    current,
    \* CpuManager / CpuCoreManager::RunLoop locals and members
    pc, tight_loop, active_core, keep_running, num_loops, max_loops,
    \* history: passes completed by the current CpuManager::RunLoop call,
    \* the record of the last CoreManager::RunLoop call, and the cores the
    \* current pass has switched the timing context to
    passes, slice, switched,
    \* history: the halt flag a protocol error found in the current
    \* CpuManager::RunLoop call, and whether a slice has issued Break since
    \* the last continue packet
    error_halt, broke,
    \* CpuCoreManager
    use_multi_core, idx, thread_to_cpu, hst, rpc, hle_lock,
    barrier, system_powered_on, cores_alive,
    \* history: RunLoop calls a helper began after NotifyEnd
    after_end,
    \* exclusive monitor: the reservation of each core; history: whether
    \* another core stored over it, and the last CheckAndClear call
    reservations, stale, last_check,
    \* GDB stub: the breakpoint table; history: the last operation on it
    breakpoints, bp_last,
    \* Barrier: its state, the host threads inside Wait; history: the Wait
    \* calls of each host thread that have returned
    bar_state, bar_wait, bar_done,
    \* timing: what is left of the slice of each timing context
    time_slice,
    \* history: Shutdown called join through an empty core_threads entry
    null_join,
    \* KServerPort: session_list, whether the port has been destroyed;
    \* history: the sessions passed to EnqueueSession, returned by
    \* AcceptSession and closed by CleanupSessions, in order, and the last
    \* call
    session_list, port_destroyed, enq_log, acc_log, closed_log, port_last,
    \* KServerPort under threads: the holder of the scheduler lock, the session
    \* an EnqueueSession call is about to link, the position of the
    \* AcceptSession and CleanupSessions calls, the session CleanupSessions
    \* took; history: the EnqueueSession calls made before CleanupSessions
    \* began, and whether Close was called with the lock held
    sched_lock, enq_pending, acc_pc, cl_pc, cl_session, cl_start,
    close_locked,
    \* EventsInterface: events_mask as the set of its one bits, status and
    \* registered of the events that are operated on, the status of all the
    \* other events; history: the last call
    events_mask, status, registered, rest_status, ev_last,
    \* GC adapter: the three flags, the two std::thread members ("empty",
    \* "running" or "finished"), the position of the scan thread, of the
    \* input thread and of the thread that calls Reset, and the threads that
    \* are inside join() on each thread member
    adapter_scan_thread_running, adapter_input_thread_running,
    restart_scan_thread, adapter_scan_thread, adapter_input_thread, scan_pc,
    input_pc, join_pc, scan_joiners, input_joiners,
    \* GC adapter rumble: the counter, each pad's amplitude and vibration
    \* flag, and for each pad the flag after each of the last calls of
    \* UpdateVibrations (at most vibration_states of them) made since the
    \* pad's amplitude was last written
    vibration_counter, rumble_amplitude, enable_vibration, vib_log,
    \* GameList::DonePopulating: the length of its watch_list, its locals len
    \* and i, its position, and the slice of watch_list (first index and
    \* number of entries) handed to each addPaths call of the last call
    watch_length, dp_len, dp_i, dp_pc, add_log

gdbVars == <<server_enabled, connected, halt_flag, step_flags>>
loopVars == <<tight_loop, active_core, keep_running, num_loops, max_loops>>
mcVars == <<use_multi_core, idx, thread_to_cpu, hst, rpc, hle_lock,
            barrier, system_powered_on, cores_alive, after_end>>
histVars == <<passes, slice, switched, error_halt, broke>>
managerVars == <<gdbVars, current, pc, loopVars, histVars, mcVars>>
monVars == <<reservations, stale, last_check>>
bpVars == <<breakpoints, bp_last>>
barVars == <<bar_state, bar_wait, bar_done>>
tmVars == <<time_slice>>
lcVars == <<null_join>>
portVars == <<session_list, port_destroyed, enq_log, acc_log, closed_log,
              port_last>>
kspVars == <<sched_lock, enq_pending, acc_pc, cl_pc, cl_session, cl_start,
             close_locked>>
evVars == <<events_mask, status, registered, rest_status, ev_last>>
gcVars == <<adapter_scan_thread_running, adapter_input_thread_running,
            restart_scan_thread, adapter_scan_thread, adapter_input_thread,
            scan_pc, input_pc, join_pc, scan_joiners, input_joiners>>
vibVars == <<vibration_counter, rumble_amplitude, enable_vibration, vib_log>>
dpVars == <<watch_length, dp_len, dp_i, dp_pc, add_log>>
objVars == <<monVars, bpVars, barVars, tmVars, lcVars, portVars, kspVars,
             evVars, gcVars, vibVars, dpVars>>
exceptMon == <<bpVars, barVars, tmVars, lcVars, portVars, kspVars, evVars,
               gcVars, vibVars, dpVars>>
exceptBp == <<monVars, barVars, tmVars, lcVars, portVars, kspVars, evVars,
              gcVars, vibVars, dpVars>>
exceptBar == <<monVars, bpVars, tmVars, lcVars, portVars, kspVars, evVars,
               gcVars, vibVars, dpVars>>
exceptTm == <<monVars, bpVars, barVars, lcVars, portVars, kspVars, evVars,
              gcVars, vibVars, dpVars>>
exceptLc == <<monVars, bpVars, barVars, tmVars, portVars, kspVars, evVars,
              gcVars, vibVars, dpVars>>
exceptPort == <<monVars, bpVars, barVars, tmVars, lcVars, kspVars, evVars,
                gcVars, vibVars, dpVars>>
exceptKsp == <<monVars, bpVars, barVars, tmVars, lcVars, evVars, gcVars,
               vibVars, dpVars>>
exceptEv == <<monVars, bpVars, barVars, tmVars, lcVars, portVars, kspVars,
              gcVars, vibVars, dpVars>>
exceptGc == <<monVars, bpVars, barVars, tmVars, lcVars, portVars, kspVars,
              evVars, vibVars, dpVars>>
exceptVib == <<monVars, bpVars, barVars, tmVars, lcVars, portVars, kspVars,
               evVars, gcVars, dpVars>>
exceptDp == <<monVars, bpVars, barVars, tmVars, lcVars, portVars, kspVars,
              evVars, gcVars, vibVars>>
vars == <<gdbVars, current, pc, loopVars, histVars, mcVars, objVars>>

\* ------------------------------------------------------------------ helpers

Max(a, b) == IF a >= b THEN a ELSE b

RECURSIVE Count(_, _)
Count(s, x) ==
    IF s = <<>> THEN 0
    ELSE (IF Head(s) = x THEN 1 ELSE 0) + Count(Tail(s), x)

\* ------------------------------------------------------------------ GDB stub

\* GDBStub::GetCpuHaltFlag
GetCpuHaltFlag(halt) == halt

\* GDBStub::GetThreadStepFlag(thread)
GetThreadStepFlag(flags, thread) == thread \in flags

\* GDBStub::Break: signal that CPU execution should halt
Break(halt) == TRUE

\* What one HandlePacket call can do to the stub's state
Packets ==
    {[kind |-> k, thread |-> NoThread] :
        k \in {"none", "accept", "continue", "interrupt", "error"}}
    \cup {[kind |-> "step", thread |-> t] : t \in Threads}

HandlePacketConnected(p, conn) ==
    CASE p.kind = "accept" -> TRUE
      [] p.kind = "error" -> FALSE
      [] OTHER -> conn

\* HandlePacketHalt that resumes the CPU on a protocol error
HandlePacketHalt_ErrorResumes(p, halt) ==
    CASE p.kind = "continue" -> FALSE
      [] p.kind = "error" -> FALSE
      [] p.kind = "interrupt" -> Break(halt)
      [] OTHER -> halt

HandlePacketHalt(p, halt) ==
    CASE p.kind = "continue" -> FALSE
      [] p.kind = "interrupt" -> Break(halt)
      [] OTHER -> halt

HandlePacketStep(p, flags) ==
    CASE p.kind = "step" -> flags \cup {p.thread}
      [] p.kind = "continue" -> {}
      [] OTHER -> flags

\* ------------------------------------------------------------------ scheduler

\* the threads SelectThread(core) / TryDoContextSwitch can make current on a
\* core: none, or a thread that is not current on another core
Selectable(cur, core) ==
    {NoThread} \cup {t \in Threads : \A d \in Cores \ {core} : cur[d] # t}

\* ------------------------------------------------------------------ CoreManager::RunLoop

\* RunLoopPath without the halt-flag branch
RunLoopPath_NoHaltCheck(sched_thread, halt, flags, tight) ==
    IF sched_thread = NoThread THEN "idle"
    ELSE IF GetThreadStepFlag(flags, sched_thread) THEN "break_step"
    ELSE IF tight THEN "run"
    ELSE "step"

\* RunLoopPath without the step-flag branch
RunLoopPath_NoStepCheck(sched_thread, halt, flags, tight) ==
    IF sched_thread = NoThread THEN "idle"
    ELSE IF GetCpuHaltFlag(halt) THEN "halted"
    ELSE IF tight THEN "run"
    ELSE "step"

\* RunLoopPath without the test for a null current thread
RunLoopPath_NoNullCheck(sched_thread, halt, flags, tight) ==
    IF GetCpuHaltFlag(halt) THEN "halted"
    ELSE IF GetThreadStepFlag(flags, sched_thread) THEN "break_step"
    ELSE IF tight THEN "run"
    ELSE "step"

\* RunLoopPath that runs where it should step
RunLoopPath_AlwaysRun(sched_thread, halt, flags, tight) ==
    IF sched_thread = NoThread THEN "idle"
    ELSE IF GetCpuHaltFlag(halt) THEN "halted"
    ELSE IF GetThreadStepFlag(flags, sched_thread) THEN "break_step"
    ELSE "run"

\* which branch of RunLoop is taken for the thread obtained after the first
\* Reschedule
RunLoopPath(sched_thread, halt, flags, tight) ==
    IF sched_thread = NoThread THEN "idle"
    ELSE IF GetCpuHaltFlag(halt) THEN "halted"
    ELSE IF GetThreadStepFlag(flags, sched_thread) THEN "break_step"
    ELSE IF tight THEN "run"
    ELSE "step"

\* RunLoopCalls whose halted branch lacks the early return
RunLoopCalls_NoReturn(path) ==
    CASE path = "idle" ->
            <<"Reschedule", "Idle", "Stop", "Advance", "Reschedule">>
      [] path = "halted" ->
            <<"Reschedule", "Reschedule", "Advance", "Reschedule">>
      [] path = "break_step" ->
            <<"Reschedule", "Break", "Step", "Advance", "Reschedule">>
      [] path = "run" ->
            <<"Reschedule", "Run", "Advance", "Reschedule">>
      [] path = "step" ->
            <<"Reschedule", "Step", "Advance", "Reschedule">>

\* RunLoopCalls without the Reschedule that ends the executing paths
RunLoopCalls_NoFinalReschedule(path) ==
    CASE path = "idle" ->
            <<"Reschedule", "Idle", "Stop", "Advance", "Reschedule">>
      [] path = "halted" ->
            <<"Reschedule", "Reschedule">>
      [] path = "break_step" ->
            <<"Reschedule", "Break", "Step", "Advance">>
      [] path = "run" ->
            <<"Reschedule", "Run", "Advance">>
      [] path = "step" ->
            <<"Reschedule", "Step", "Advance">>

\* RunLoopCalls that reports the break after the instruction
RunLoopCalls_BreakAfterStep(path) ==
    CASE path = "idle" ->
            <<"Reschedule", "Idle", "Stop", "Advance", "Reschedule">>
      [] path = "halted" ->
            <<"Reschedule", "Reschedule">>
      [] path = "break_step" ->
            <<"Reschedule", "Step", "Break", "Advance", "Reschedule">>
      [] path = "run" ->
            <<"Reschedule", "Run", "Advance", "Reschedule">>
      [] path = "step" ->
            <<"Reschedule", "Step", "Advance", "Reschedule">>

\* the calls one RunLoop makes, in order
RunLoopCalls(path) ==
    CASE path = "idle" ->
            <<"Reschedule", "Idle", "Stop", "Advance", "Reschedule">>
      [] path = "halted" ->
            <<"Reschedule", "Reschedule">>
      [] path = "break_step" ->
            <<"Reschedule", "Break", "Step", "Advance", "Reschedule">>
      [] path = "run" ->
            <<"Reschedule", "Run", "Advance", "Reschedule">>
      [] path = "step" ->
            <<"Reschedule", "Step", "Advance", "Reschedule">>

\* RunLoopHalt of a run loop that resumes when it finds the CPU halted
RunLoopHalt_Clears(path, halt) ==
    IF path = "break_step" THEN Break(halt)
    ELSE IF path = "halted" THEN FALSE
    ELSE halt

\* RunLoopHalt of a run loop whose step branch does not call Break
RunLoopHalt_NoBreak(path, halt) == halt

\* halt_flag after the call
RunLoopHalt(path, halt) ==
    IF path = "break_step" THEN Break(halt) ELSE halt

\* the argument CoreManager::SingleStep passes to RunLoop
SingleStepTight_True == TRUE

SingleStepTight == FALSE

\* the record of a RunLoop call: who made it (a pass of CpuManager::RunLoop
\* or SingleStep), the core whose CoreManager was called, the timing context
\* and the value of CanCurrentContextRun at the call, halt_flag at entry, the
\* current thread the call obtains after its first Reschedule, the calls made
NoSlice ==
    [called |-> FALSE, via |-> "none", core |-> 0, context |-> 0,
     can_run |-> FALSE, entry_halt |-> FALSE, sched_thread |-> NoThread,
     calls |-> <<>>]

\* ------------------------------------------------------------------ exclusive monitor

\* largest address of the monitored memory that is explored (bound)
MaxMonAddr == 1

MonAddrs == 0 .. MaxMonAddr
MonWidths == {1, 2}

\* a core's reservation: none, or an address and a width
NoReservation == [addr |-> 0, width |-> 0]
\* the ranges [a1, a1 + w1) and [a2, a2 + w2) have a byte in common
Overlaps(a1, w1, a2, w2) ==
    /\ w1 > 0
    /\ w2 > 0
    /\ a1 < a2 + w2
    /\ a2 < a1 + w1

NoCheck == [core |-> 0, result |-> FALSE, matched |-> FALSE,
            was_stale |-> FALSE, made |-> FALSE]

InitMon ==
    /\ reservations = [c \in Cores |-> NoReservation]
    /\ stale = [c \in Cores |-> FALSE]
    /\ last_check = NoCheck

\* a store that leaves the reservations of the other cores alone
StoreClears_Nothing(res, core, a, w) == res

\* a store by a core to [a, a + w) invalidates every reservation that
\* overlaps it
StoreClears(res, core, a, w) ==
    [d \in Cores |->
        IF Overlaps(res[d].addr, res[d].width, a, w)
        THEN NoReservation ELSE res[d]]

\* CheckAndClear: a matching reservation of the core exists
CheckMatches(res, core, a, w) ==
    res[core] = [addr |-> a, width |-> w]

\* ExclusiveMonitor::Reserve(core, addr, width): overwrites any prior
\* reservation of the core
Reserve(core, a, w) ==
    /\ reservations' = [reservations EXCEPT ![core] =
                           [addr |-> a, width |-> w]]
    /\ stale' = [stale EXCEPT ![core] = FALSE]
    /\ UNCHANGED last_check

\* an ordinary store by a core to [a, a + w)
Store(core, a, w) ==
    /\ reservations' = StoreClears(reservations, core, a, w)
    /\ stale' = [d \in Cores |->
                    \/ stale[d]
                    \/ /\ d # core
                       /\ Overlaps(reservations[d].addr,
                                   reservations[d].width, a, w)]
    /\ UNCHANGED last_check

\* ExclusiveMonitor::CheckAndClear(core, addr, width): the store-conditional
\* succeeds iff a matching reservation of the core exists; a successful one
\* writes [a, a + w) and so clears that reservation and every overlapping
\* one
CheckAndClear(core, a, w) ==
    LET ok == CheckMatches(reservations, core, a, w)
    IN /\ last_check' =
            [core |-> core, result |-> ok,
             matched |-> (reservations[core] = [addr |-> a, width |-> w]),
             was_stale |-> stale[core], made |-> TRUE]
       /\ reservations' =
            IF ok THEN StoreClears(reservations, core, a, w)
            ELSE reservations
       /\ stale' = IF ok
                   THEN [d \in Cores |->
                           IF d = core THEN FALSE
                           ELSE \/ stale[d]
                                \/ Overlaps(reservations[d].addr,
                                            reservations[d].width, a, w)]
                   ELSE stale

\* ExclusiveMonitor::ClearAll(core): drops the core's reservation
ClearAll(core) ==
    /\ reservations' = [reservations EXCEPT ![core] = NoReservation]
    /\ stale' = [stale EXCEPT ![core] = FALSE]
    /\ UNCHANGED last_check

\* ------------------------------------------------------------------ breakpoint table

\* largest breakpoint address explored (bound)
MaxBpAddr == 2
\* largest number of breakpoints stored at a time that is explored (bound)
MaxBps == 3

BpAddrs == 0 .. MaxBpAddr

\* GDBStub::BreakpointType
BreakpointTypes == {"Execute", "Read", "Write", "Access"}

\* the BreakpointAddress returned when there is no breakpoint
Sentinel == [address |-> 0, type |-> "None"]

NoBpOp == [op |-> "none", address |-> 0, type |-> "None",
           result |-> "", found |-> Sentinel, prev |-> "none"]

InitBp ==
    /\ breakpoints = {}
    /\ bp_last = NoBpOp

\* CheckBreakpoint that matches the stored type only
CheckBreakpoint_ExactOnly(table, addr, type) ==
    [address |-> addr, type |-> type] \in table

\* GDBStub::CheckBreakpoint(addr, type): exact-match lookup; type Access
\* matches entries of type Read, Write or Access at that address
CheckBreakpoint(table, addr, type) ==
    IF type = "Access"
    THEN \E t \in {"Read", "Write", "Access"} :
            [address |-> addr, type |-> t] \in table
    ELSE [address |-> addr, type |-> type] \in table

\* the table is ordered by address: the first entry of the type at or
\* after addr
RECURSIVE ScanFrom(_, _, _)
ScanFrom(table, addr, type) ==
    IF addr > MaxBpAddr THEN Sentinel
    ELSE IF [address |-> addr, type |-> type] \in table
         THEN [address |-> addr, type |-> type]
         ELSE ScanFrom(table, addr + 1, type)

\* GetNextBreakpointFromAddress that looks above addr only
GetNextBreakpointFromAddress_Above(table, addr, type) ==
    ScanFrom(table, addr + 1, type)

\* GDBStub::GetNextBreakpointFromAddress(addr, type)
GetNextBreakpointFromAddress(table, addr, type) ==
    ScanFrom(table, addr, type)

\* the previous operation, as seen by a query on (addr, type): a successful
\* insert or remove of that very breakpoint, or anything else
PrevOn(addr, type) ==
    IF /\ bp_last.op \in {"insert", "remove"}
       /\ bp_last.result = "OK"
       /\ bp_last.address = addr
       /\ bp_last.type = type
    THEN bp_last.op ELSE "none"

\* the debugger's Z packet: the breakpoint is inserted; a duplicate or an
\* invalid address is answered E01 and changes nothing
InsertBreakpoint(addr, type, valid) ==
    LET bp == [address |-> addr, type |-> type]
        ok == valid /\ bp \notin breakpoints
    IN /\ ok => Cardinality(breakpoints) < MaxBps
       /\ breakpoints' = IF ok THEN breakpoints \cup {bp} ELSE breakpoints
       /\ bp_last' = [op |-> "insert", address |-> addr, type |-> type,
                      result |-> IF ok THEN "OK" ELSE "E01",
                      found |-> Sentinel, prev |-> "none"]

\* the debugger's z packet: the breakpoint is removed
RemoveBreakpoint(addr, type) ==
    LET bp == [address |-> addr, type |-> type]
    IN /\ breakpoints' = breakpoints \ {bp}
       /\ bp_last' = [op |-> "remove", address |-> addr, type |-> type,
                      result |-> "OK", found |-> Sentinel, prev |-> "none"]

\* a CheckBreakpoint call
CallCheckBreakpoint(addr, type) ==
    /\ bp_last' = [op |-> "check", address |-> addr, type |-> type,
                   result |-> IF CheckBreakpoint(breakpoints, addr, type)
                              THEN "true" ELSE "false",
                   found |-> Sentinel, prev |-> PrevOn(addr, type)]
    /\ UNCHANGED breakpoints

\* a GetNextBreakpointFromAddress call
CallGetNextBreakpoint(addr, type) ==
    /\ bp_last' = [op |-> "next", address |-> addr, type |-> type,
                   result |-> "",
                   found |-> GetNextBreakpointFromAddress(breakpoints,
                                                          addr, type),
                   prev |-> "none"]
    /\ UNCHANGED breakpoints

\* ------------------------------------------------------------------ Barrier

\* Wait calls of one host thread that are explored (bound)
MaxWaits == 2

InitBar ==
    /\ bar_state = "Open"
    /\ bar_wait = [h \in HostThreads |-> FALSE]
    /\ bar_done = [h \in HostThreads |-> 0]

\* NotifyEnd that flips the state
NotifyEndState_Toggle(state) ==
    IF state = "Open" THEN "Ending" ELSE "Open"

\* the state NotifyEnd leaves: Open -> Ending, Ending -> Ending
NotifyEndState(state) == "Ending"

\* whether Wait returns: immediately if Ending, else it suspends
WaitReturns(state) == state = "Ending"

\* Barrier::NotifyEnd
BarrierNotifyEnd ==
    /\ bar_state' = NotifyEndState(bar_state)
    /\ UNCHANGED <<bar_wait, bar_done>>

\* host thread h calls Barrier::Wait
BarrierWait(h) ==
    /\ ~bar_wait[h]
    /\ bar_done[h] < MaxWaits
    /\ IF WaitReturns(bar_state)
       THEN /\ bar_done' = [bar_done EXCEPT ![h] = @ + 1]
            /\ UNCHANGED bar_wait
       ELSE /\ bar_wait' = [bar_wait EXCEPT ![h] = TRUE]
            /\ UNCHANGED bar_done
    /\ UNCHANGED bar_state

\* host thread h, suspended in Barrier::Wait, is resumed
BarrierWake(h) ==
    /\ bar_wait[h]
    /\ WaitReturns(bar_state)
    /\ bar_wait' = [bar_wait EXCEPT ![h] = FALSE]
    /\ bar_done' = [bar_done EXCEPT ![h] = @ + 1]
    /\ UNCHANGED bar_state

\* ------------------------------------------------------------------ timing

\* length of the slice ResetRun gives each timing context (bound)
MaxSlice == 2

\* CoreTiming::ResetRun
ResetRun == [c \in Cores |-> MaxSlice]

InitTm ==
    /\ time_slice = ResetRun

\* CoreTiming::CanCurrentContextRun, the current context being ctx
CanCurrentContextRun(ts, ctx) == ts[ctx] > 0

\* what can be left of a slice after one CoreManager::RunLoop call: Idle and
\* Advance take at least one unit from it; the halted branch returns before
\* Advance and takes nothing
SliceLeft(path, left) ==
    IF path = "halted" THEN {left} ELSE 0 .. (left - 1)

InitLc ==
    /\ null_join = FALSE

\* ------------------------------------------------------------------ KServerPort

\* sessions that exist (bound)
MaxSessions == 3
\* EnqueueSession calls that are explored (bound)
MaxEnqueues == 4

Sessions == 1 .. MaxSessions

\* nullptr
NoSession == 0

NoPortCall == [op |-> "none", session |-> NoSession, notified |-> FALSE]

InitPort ==
    /\ session_list = <<>>
    /\ port_destroyed = FALSE
    /\ enq_log = <<>>
    /\ acc_log = <<>>
    /\ closed_log = <<>>
    /\ port_last = NoPortCall

\* whether a session is linked into the list
Linked(list, s) == \E i \in 1 .. Len(list) : list[i] = s

\* EnqueueSession that links the session at the head of the list
PushBack_AtFront(list, s) == <<s>> \o list

\* session_list.push_back(*session)
PushBack(list, s) == Append(list, s)

\* std::addressof(session_list.front())
Front(list) == Head(list)

\* session_list.pop_front()
PopFront(list) == Tail(list)

\* EnqueueSession that notifies whenever the list is not empty
NotifiesAvailable_NonEmpty(list) == Len(list) >= 1

\* EnqueueSession: if (session_list.size() == 1) NotifyAvailable()
NotifiesAvailable(list) == Len(list) = 1

\* KServerPort::IsSignaled on a port that is not light
IsSignaled(list) == list # <<>>

\* KServerPort::EnqueueSession on a port that is not light; the list is
\* intrusive, so the session is not linked already
EnqueueSession(s) ==
    /\ ~port_destroyed
    /\ ~Linked(session_list, s)
    /\ Len(enq_log) < MaxEnqueues
    /\ session_list' = PushBack(session_list, s)
    /\ enq_log' = Append(enq_log, s)
    /\ port_last' = [op |-> "enqueue", session |-> s,
                     notified |-> NotifiesAvailable(session_list')]
    /\ UNCHANGED <<port_destroyed, acc_log, closed_log>>

\* KServerPort::AcceptSession on a port that is not light
AcceptSession ==
    /\ ~port_destroyed
    /\ IF session_list = <<>>
       THEN /\ port_last' = [op |-> "accept", session |-> NoSession,
                             notified |-> FALSE]
            /\ UNCHANGED <<session_list, acc_log>>
       ELSE /\ port_last' = [op |-> "accept",
                             session |-> Front(session_list),
                             notified |-> FALSE]
            /\ acc_log' = Append(acc_log, Front(session_list))
            /\ session_list' = PopFront(session_list)
    /\ UNCHANGED <<port_destroyed, enq_log, closed_log>>

\* the sessions CleanupSessions closes, in order: the front of the list
\* until the list is empty
RECURSIVE CleanupSessions(_)
CleanupSessions(list) ==
    IF list = <<>> THEN <<>>
    ELSE <<Front(list)>> \o CleanupSessions(PopFront(list))

\* KServerPort::Destroy
Destroy ==
    /\ ~port_destroyed
    /\ closed_log' = CleanupSessions(session_list)
    /\ session_list' = <<>>
    /\ port_destroyed' = TRUE
    /\ port_last' = [op |-> "destroy", session |-> NoSession,
                     notified |-> FALSE]
    /\ UNCHANGED <<enq_log, acc_log>>

\* ------------------------------------------------------------------ KServerPort, threads

InitKsp ==
    /\ sched_lock = "none"
    /\ enq_pending = NoSession
    /\ acc_pc = "idle"
    /\ cl_pc = "idle"
    /\ cl_session = NoSession
    /\ cl_start = 0
    /\ close_locked = FALSE

\* KScopedSchedulerLock: the lock can be taken
LockFree(holder) == holder = "none"

\* CleanupSessions that reads the front of the list without unlinking it
CleanupTake_NoPop(list) ==
    IF list = <<>> THEN [session |-> NoSession, list |-> list]
    ELSE [session |-> Front(list), list |-> list]

\* CleanupSessions, under the lock: the front session is taken off the
\* list, or nullptr when the list is empty
CleanupTake(list) ==
    IF list = <<>> THEN [session |-> NoSession, list |-> list]
    ELSE [session |-> Front(list), list |-> PopFront(list)]

\* EnqueueSession: KScopedSchedulerLock sl{kernel}, for a session that was
\* never enqueued
EnqLock(s) ==
    /\ enq_pending = NoSession
    /\ Count(enq_log, s) = 0
    /\ Len(enq_log) < MaxEnqueues
    /\ LockFree(sched_lock)
    /\ sched_lock' = "enq"
    /\ enq_pending' = s
    /\ UNCHANGED <<acc_pc, cl_pc, cl_session, cl_start, close_locked>>
    /\ UNCHANGED portVars
    /\ UNCHANGED <<managerVars, exceptKsp>>

\* EnqueueSession: the body and the end of the scope
EnqBody ==
    /\ sched_lock = "enq"
    /\ EnqueueSession(enq_pending)
    /\ sched_lock' = "none"
    /\ enq_pending' = NoSession
    /\ UNCHANGED <<acc_pc, cl_pc, cl_session, cl_start, close_locked>>
    /\ UNCHANGED <<managerVars, exceptKsp>>

\* AcceptSession: KScopedSchedulerLock sl{kernel}
AccLock ==
    /\ acc_pc = "idle"
    /\ LockFree(sched_lock)
    /\ sched_lock' = "acc"
    /\ acc_pc' = "locked"
    /\ UNCHANGED <<enq_pending, cl_pc, cl_session, cl_start, close_locked>>
    /\ UNCHANGED portVars
    /\ UNCHANGED <<managerVars, exceptKsp>>

\* AcceptSession: the body and the end of the scope
AccBody ==
    /\ acc_pc = "locked"
    /\ AcceptSession
    /\ sched_lock' = "none"
    /\ acc_pc' = "idle"
    /\ UNCHANGED <<enq_pending, cl_pc, cl_session, cl_start, close_locked>>
    /\ UNCHANGED <<managerVars, exceptKsp>>

\* CleanupSessions is called
CleanupBegin ==
    /\ cl_pc = "idle"
    /\ cl_pc' = "lock"
    /\ cl_start' = Len(enq_log)
    /\ UNCHANGED <<sched_lock, enq_pending, acc_pc, cl_session,
                   close_locked>>
    /\ UNCHANGED portVars
    /\ UNCHANGED <<managerVars, exceptKsp>>

\* CleanupSessions: KScopedSchedulerLock sl{kernel}
CleanupLock ==
    /\ cl_pc = "lock"
    /\ LockFree(sched_lock)
    /\ sched_lock' = "cleanup"
    /\ cl_pc' = "take"
    /\ UNCHANGED <<enq_pending, acc_pc, cl_session, cl_start, close_locked>>
    /\ UNCHANGED portVars
    /\ UNCHANGED <<managerVars, exceptKsp>>

\* CleanupSessions: the locked block and the end of its scope
CleanupPop ==
    /\ cl_pc = "take"
    /\ LET took == CleanupTake(session_list)
       IN /\ cl_session' = took.session
          /\ session_list' = took.list
    /\ sched_lock' = "none"
    /\ cl_pc' = "close"
    /\ UNCHANGED <<enq_pending, acc_pc, cl_start, close_locked>>
    /\ UNCHANGED <<port_destroyed, enq_log, acc_log, closed_log, port_last>>
    /\ UNCHANGED <<managerVars, exceptKsp>>

\* CleanupSessions: session->Close() and the next iteration, or break
CleanupClose ==
    /\ cl_pc = "close"
    /\ IF cl_session # NoSession
       THEN /\ closed_log' = Append(closed_log, cl_session)
            /\ close_locked' = (close_locked \/ sched_lock = "cleanup")
            /\ cl_pc' = "lock"
       ELSE /\ cl_pc' = "done"
            /\ UNCHANGED <<closed_log, close_locked>>
    /\ cl_session' = NoSession
    /\ UNCHANGED <<sched_lock, enq_pending, acc_pc, cl_start>>
    /\ UNCHANGED <<session_list, port_destroyed, enq_log, acc_log,
                   port_last>>
    /\ UNCHANGED <<managerVars, exceptKsp>>

\* ------------------------------------------------------------------ EventsInterface

\* number of events (nvdata.h)
MaxNvEvents == 64
\* width of u64 events_mask and of the int operand of the shifts
MaskBits == 64
IntBits == 32

\* largest of the low event ids that are operated on (bound)
MaxEventLow == 0

\* the event ids that are operated on: low ones, and those at the edge of
\* the int
EventIds == (0 .. MaxEventLow) \cup {IntBits - 1, IntBits}
AllEvents == 0 .. (MaxNvEvents - 1)

EventStates == {"Free", "Registered", "Waiting", "Busy"}

\* 0xFFFFFFFF, the u32 with all bits set, written as the int of that
\* pattern
NoFreeEvent == -1

NoEvCall == [op |-> "none", result |-> NoFreeEvent]

\* EventsInterface as constructed: every event Free, the mask 0
InitEv ==
    /\ rest_status = "Free"
    /\ status = [i \in EventIds |-> "Free"]
    /\ registered = [i \in EventIds |-> FALSE]
    /\ events_mask = {}
    /\ ev_last = NoEvCall

\* status[i] of any event
StatusOf(st, rest, i) == IF i \in EventIds THEN st[i] ELSE rest

\* mask >> 1
ShiftRight(mask) == {b - 1 : b \in mask \ {0}}

\* GetFreeEvent that does not look at the status
RECURSIVE GetFreeEventFrom_AnyStatus(_, _, _, _)
GetFreeEventFrom_AnyStatus(i, mask, st, rest) ==
    IF i >= MaxNvEvents THEN NoFreeEvent
    ELSE IF 0 \notin mask THEN i
    ELSE GetFreeEventFrom_AnyStatus(i + 1, ShiftRight(mask), st, rest)

\* the for loop of GetFreeEvent from iteration i on
RECURSIVE GetFreeEventFrom(_, _, _, _)
GetFreeEventFrom(i, mask, st, rest) ==
    IF i >= MaxNvEvents THEN NoFreeEvent
    ELSE IF 0 \notin mask /\ StatusOf(st, rest, i) \in {"Registered", "Free"}
         THEN i
         ELSE GetFreeEventFrom(i + 1, ShiftRight(mask), st, rest)

\* GetFreeEvent that does not look at the status
GetFreeEvent_AnyStatus(mask, st, rest) ==
    GetFreeEventFrom_AnyStatus(0, mask, st, rest)

\* EventsInterface::GetFreeEvent
GetFreeEvent(mask, st, rest) == GetFreeEventFrom(0, mask, st, rest)

\* the values of the int expression 1 << event_id, as sets of one bits: a
\* shift by 32 or more is undefined; the builds shift by event_id mod 32 or
\* produce 0
ShiftLeftOne(event_id) ==
    IF event_id < IntBits THEN {{event_id}}
    ELSE {{event_id % IntBits}, {}}

\* ~x for an int x
NotInt(x) == (0 .. (IntBits - 1)) \ x

\* the conversion of an int to u64: sign extension
ToU64(x) ==
    x \cup (IF (IntBits - 1) \in x THEN IntBits .. (MaskBits - 1) ELSE {})

\* EventsInterface::SetEventStatus
SetEventStatus(event_id, new_status) ==
    /\ IF status[event_id] = new_status
       THEN UNCHANGED <<status, registered, events_mask>>
       ELSE /\ status' = [status EXCEPT ![event_id] = new_status]
            /\ registered' =
                  IF new_status = "Registered"
                  THEN [registered EXCEPT ![event_id] = TRUE]
                  ELSE registered
            /\ IF new_status \in {"Waiting", "Busy"}
               THEN \E x \in ShiftLeftOne(event_id) :
                      events_mask' = events_mask \cup ToU64(x)
               ELSE UNCHANGED events_mask
    /\ ev_last' = [op |-> "other", result |-> NoFreeEvent]
    /\ UNCHANGED rest_status
    /\ UNCHANGED <<managerVars, exceptEv>>

\* EventsInterface::RegisterEvent
RegisterEvent(event_id) ==
    /\ registered' = [registered EXCEPT ![event_id] = TRUE]
    /\ status' = IF status[event_id] = "Free"
                 THEN [status EXCEPT ![event_id] = "Registered"]
                 ELSE status
    /\ ev_last' = [op |-> "other", result |-> NoFreeEvent]
    /\ UNCHANGED <<events_mask, rest_status>>
    /\ UNCHANGED <<managerVars, exceptEv>>

\* EventsInterface::UnregisterEvent
UnregisterEvent(event_id) ==
    /\ registered' = [registered EXCEPT ![event_id] = FALSE]
    /\ status' = IF status[event_id] = "Registered"
                 THEN [status EXCEPT ![event_id] = "Free"]
                 ELSE status
    /\ ev_last' = [op |-> "other", result |-> NoFreeEvent]
    /\ UNCHANGED <<events_mask, rest_status>>
    /\ UNCHANGED <<managerVars, exceptEv>>

\* EventsInterface::LiberateEvent
LiberateEvent(event_id) ==
    /\ status' = [status EXCEPT ![event_id] =
                     IF registered[event_id] THEN "Registered" ELSE "Free"]
    /\ \E x \in ShiftLeftOne(event_id) :
          events_mask' = events_mask \cap ToU64(NotInt(x))
    /\ ev_last' = [op |-> "other", result |-> NoFreeEvent]
    /\ UNCHANGED <<registered, rest_status>>
    /\ UNCHANGED <<managerVars, exceptEv>>

\* SetEventStatus(i, Busy) for every other event i, untouched so far; for
\* those below 31 that sets exactly their bit
SetOthersBusy ==
    /\ rest_status = "Free"
    /\ rest_status' = "Busy"
    /\ events_mask' =
           events_mask \cup {i \in AllEvents \ EventIds : i < IntBits - 1}
    /\ ev_last' = [op |-> "other", result |-> NoFreeEvent]
    /\ UNCHANGED <<status, registered>>
    /\ UNCHANGED <<managerVars, exceptEv>>

\* a GetFreeEvent call
CallGetFreeEvent ==
    /\ ev_last' = [op |-> "get",
                   result |-> GetFreeEvent(events_mask, status, rest_status)]
    /\ UNCHANGED <<events_mask, status, registered, rest_status>>
    /\ UNCHANGED <<managerVars, exceptEv>>

\* ------------------------------------------------------------------ GC adapter

\* Adapter::Adapter with libusb initialised: the scan thread has been
\* started and has not run yet
InitGc ==
    /\ adapter_scan_thread_running = FALSE
    /\ adapter_input_thread_running = FALSE
    /\ restart_scan_thread = FALSE
    /\ adapter_scan_thread = "running"
    /\ adapter_input_thread = "empty"
    /\ scan_pc = "start"
    /\ input_pc = "none"
    /\ join_pc = "idle"
    /\ scan_joiners = {}
    /\ input_joiners = {}

\* std::thread::joinable
Joinable(thread) == thread # "empty"

\* the condition of the while loop of AdapterScanThread
ScanContinues(scan_running, input_running) == scan_running /\ ~input_running

\* JoinThreads: the three flags are cleared
JoinThreadsClear ==
    /\ join_pc = "idle"
    /\ restart_scan_thread' = FALSE
    /\ adapter_input_thread_running' = FALSE
    /\ adapter_scan_thread_running' = FALSE
    /\ join_pc' = "scan"
    /\ UNCHANGED <<adapter_scan_thread, adapter_input_thread, scan_pc,
                   input_pc, scan_joiners, input_joiners>>
    /\ UNCHANGED <<managerVars, exceptGc>>

\* JoinThreads: if (adapter_scan_thread.joinable()) join() is entered
JoinThreadsScan ==
    /\ join_pc = "scan"
    /\ IF Joinable(adapter_scan_thread)
       THEN /\ scan_joiners' = scan_joiners \cup {"main"}
            /\ join_pc' = "scan_join"
       ELSE /\ join_pc' = "input"
            /\ UNCHANGED scan_joiners
    /\ UNCHANGED <<adapter_scan_thread_running,
                   adapter_input_thread_running, restart_scan_thread,
                   adapter_scan_thread, adapter_input_thread, scan_pc,
                   input_pc, input_joiners>>
    /\ UNCHANGED <<managerVars, exceptGc>>

\* JoinThreads: adapter_scan_thread.join() returns
JoinThreadsScanDone ==
    /\ join_pc = "scan_join"
    /\ adapter_scan_thread # "running"
    /\ adapter_scan_thread' = "empty"
    /\ scan_joiners' = scan_joiners \ {"main"}
    /\ join_pc' = "input"
    /\ UNCHANGED <<adapter_scan_thread_running,
                   adapter_input_thread_running, restart_scan_thread,
                   adapter_input_thread, scan_pc, input_pc, input_joiners>>
    /\ UNCHANGED <<managerVars, exceptGc>>

\* JoinThreads: if (adapter_input_thread.joinable()) join() is entered
JoinThreadsInput ==
    /\ join_pc = "input"
    /\ IF Joinable(adapter_input_thread)
       THEN /\ input_joiners' = input_joiners \cup {"main"}
            /\ join_pc' = "input_join"
       ELSE /\ join_pc' = "done"
            /\ UNCHANGED input_joiners
    /\ UNCHANGED <<adapter_scan_thread_running,
                   adapter_input_thread_running, restart_scan_thread,
                   adapter_scan_thread, adapter_input_thread, scan_pc,
                   input_pc, scan_joiners>>
    /\ UNCHANGED <<managerVars, exceptGc>>

\* JoinThreads: adapter_input_thread.join() returns
JoinThreadsInputDone ==
    /\ join_pc = "input_join"
    /\ adapter_input_thread # "running"
    /\ adapter_input_thread' = "empty"
    /\ input_joiners' = input_joiners \ {"main"}
    /\ join_pc' = "done"
    /\ UNCHANGED <<adapter_scan_thread_running,
                   adapter_input_thread_running, restart_scan_thread,
                   adapter_scan_thread, scan_pc, input_pc, scan_joiners>>
    /\ UNCHANGED <<managerVars, exceptGc>>

\* AdapterScanThread: the two assignments at its head
ScanStart ==
    /\ scan_pc = "start"
    /\ adapter_scan_thread_running' = TRUE
    /\ adapter_input_thread_running' = FALSE
    /\ scan_pc' = "join"
    /\ UNCHANGED <<restart_scan_thread, adapter_scan_thread,
                   adapter_input_thread, input_pc, join_pc, scan_joiners,
                   input_joiners>>
    /\ UNCHANGED <<managerVars, exceptGc>>

\* AdapterScanThread: if (adapter_input_thread.joinable()) join() is entered
ScanJoinInput ==
    /\ scan_pc = "join"
    /\ IF Joinable(adapter_input_thread)
       THEN /\ input_joiners' = input_joiners \cup {"scan"}
            /\ scan_pc' = "joining"
       ELSE /\ scan_pc' = "loop"
            /\ UNCHANGED input_joiners
    /\ UNCHANGED <<adapter_scan_thread_running,
                   adapter_input_thread_running, restart_scan_thread,
                   adapter_scan_thread, adapter_input_thread, input_pc,
                   join_pc, scan_joiners>>
    /\ UNCHANGED <<managerVars, exceptGc>>

\* AdapterScanThread: adapter_input_thread.join() returns
ScanJoinInputDone ==
    /\ scan_pc = "joining"
    /\ adapter_input_thread # "running"
    /\ adapter_input_thread' = "empty"
    /\ input_joiners' = input_joiners \ {"scan"}
    /\ scan_pc' = "loop"
    /\ UNCHANGED <<adapter_scan_thread_running,
                   adapter_input_thread_running, restart_scan_thread,
                   adapter_scan_thread, input_pc, join_pc, scan_joiners>>
    /\ UNCHANGED <<managerVars, exceptGc>>

\* AdapterScanThread: the loop condition; the thread ends when it is false
ScanLoop ==
    /\ scan_pc = "loop"
    /\ IF ScanContinues(adapter_scan_thread_running,
                        adapter_input_thread_running)
       THEN /\ scan_pc' = "setup"
            /\ UNCHANGED adapter_scan_thread
       ELSE /\ scan_pc' = "none"
            /\ adapter_scan_thread' = "finished"
    /\ UNCHANGED <<adapter_scan_thread_running,
                   adapter_input_thread_running, restart_scan_thread,
                   adapter_input_thread, input_pc, join_pc, scan_joiners,
                   input_joiners>>
    /\ UNCHANGED <<managerVars, exceptGc>>

\* Setup up to the flags: no adapter is found, or one is found and the
\* flags are set
Setup ==
    /\ scan_pc = "setup"
    /\ \E found \in BOOLEAN :
         IF found
         THEN /\ adapter_scan_thread_running' = FALSE
              /\ adapter_input_thread_running' = TRUE
              /\ scan_pc' = "spawn"
         ELSE /\ scan_pc' = "loop"
              /\ UNCHANGED <<adapter_scan_thread_running,
                             adapter_input_thread_running>>
    /\ UNCHANGED <<restart_scan_thread, adapter_scan_thread,
                   adapter_input_thread, input_pc, join_pc, scan_joiners,
                   input_joiners>>
    /\ UNCHANGED <<managerVars, exceptGc>>

\* Setup: adapter_input_thread = std::thread(&Adapter::AdapterInputThread)
SetupSpawn ==
    /\ scan_pc = "spawn"
    /\ input_pc = "none"
    /\ adapter_input_thread' = "running"
    /\ input_pc' = "join"
    /\ scan_pc' = "loop"
    /\ UNCHANGED <<adapter_scan_thread_running,
                   adapter_input_thread_running, restart_scan_thread,
                   adapter_scan_thread, join_pc, scan_joiners,
                   input_joiners>>
    /\ UNCHANGED <<managerVars, exceptGc>>

\* AdapterInputThread: if (adapter_scan_thread.joinable()) join() is entered
InputJoinScan ==
    /\ input_pc = "join"
    /\ IF Joinable(adapter_scan_thread)
       THEN /\ scan_joiners' = scan_joiners \cup {"input"}
            /\ input_pc' = "joining"
       ELSE /\ input_pc' = "loop"
            /\ UNCHANGED scan_joiners
    /\ UNCHANGED <<adapter_scan_thread_running,
                   adapter_input_thread_running, restart_scan_thread,
                   adapter_scan_thread, adapter_input_thread, scan_pc,
                   join_pc, input_joiners>>
    /\ UNCHANGED <<managerVars, exceptGc>>

\* AdapterInputThread: adapter_scan_thread.join() returns
InputJoinScanDone ==
    /\ input_pc = "joining"
    /\ adapter_scan_thread # "running"
    /\ adapter_scan_thread' = "empty"
    /\ scan_joiners' = scan_joiners \ {"input"}
    /\ input_pc' = "loop"
    /\ UNCHANGED <<adapter_scan_thread_running,
                   adapter_input_thread_running, restart_scan_thread,
                   adapter_input_thread, scan_pc, join_pc, input_joiners>>
    /\ UNCHANGED <<managerVars, exceptGc>>

\* AdapterInputThread: one test of the loop condition; an iteration reads
\* a payload, and IsPayloadCorrect may give the adapter up
InputLoop ==
    /\ input_pc = "loop"
    /\ IF adapter_input_thread_running
       THEN /\ \E timeout \in BOOLEAN :
                 IF timeout
                 THEN /\ adapter_input_thread_running' = FALSE
                      /\ restart_scan_thread' = TRUE
                 ELSE UNCHANGED <<adapter_input_thread_running,
                                  restart_scan_thread>>
            /\ UNCHANGED input_pc
       ELSE /\ input_pc' = "restart"
            /\ UNCHANGED <<adapter_input_thread_running,
                           restart_scan_thread>>
    /\ UNCHANGED <<adapter_scan_thread_running, adapter_scan_thread,
                   adapter_input_thread, scan_pc, join_pc, scan_joiners,
                   input_joiners>>
    /\ UNCHANGED <<managerVars, exceptGc>>

\* AdapterInputThread: if (restart_scan_thread) the scan thread is started
InputRestart ==
    /\ input_pc = "restart"
    /\ IF restart_scan_thread
       THEN /\ scan_pc = "none"
            /\ adapter_scan_thread' = "running"
            /\ scan_pc' = "start"
            /\ restart_scan_thread' = FALSE
       ELSE UNCHANGED <<adapter_scan_thread, scan_pc, restart_scan_thread>>
    /\ input_pc' = "exit"
    /\ UNCHANGED <<adapter_scan_thread_running,
                   adapter_input_thread_running, adapter_input_thread,
                   join_pc, scan_joiners, input_joiners>>
    /\ UNCHANGED <<managerVars, exceptGc>>

\* AdapterInputThread returns
InputExit ==
    /\ input_pc = "exit"
    /\ input_pc' = "none"
    /\ adapter_input_thread' = "finished"
    /\ UNCHANGED <<adapter_scan_thread_running,
                   adapter_input_thread_running, restart_scan_thread,
                   adapter_scan_thread, scan_pc, join_pc, scan_joiners,
                   input_joiners>>
    /\ UNCHANGED <<managerVars, exceptGc>>

\* ------------------------------------------------------- GC adapter, rumble

\* constexpr u8 vibration_states
vibration_states == 8

\* the largest u8, the type of an amplitude
MaxU8 == 255

\* the pads are 0 .. MaxPort
MaxPort == 0

\* the amplitudes tried: 0 .. MaxAmplitude, vibration_states - 1,
\* vibration_states and the largest u8
MaxAmplitude == 2

Ports == 0 .. MaxPort

Amplitudes ==
    (0 .. MaxAmplitude) \cup {vibration_states - 1, vibration_states, MaxU8}

\* the members as the adapter is constructed
InitVib ==
    /\ vibration_counter = 0
    /\ rumble_amplitude = [p \in Ports |-> 0]
    /\ enable_vibration = [p \in Ports |-> FALSE]
    /\ vib_log = [p \in Ports |-> <<>>]

\* the last vibration_states entries of log with flag appended
Logged(log, flag) ==
    IF Len(log) < vibration_states
    THEN Append(log, flag)
    ELSE Append(Tail(log), flag)

\* the number of TRUE entries of log
RECURSIVE CountOn(_)
CountOn(log) ==
    IF log = <<>>
    THEN 0
    ELSE (IF Head(log) THEN 1 ELSE 0) + CountOn(Tail(log))

Vibrates_AtLeast(amplitude, counter) == amplitude >= counter

\* const bool vibrate = pad.rumble_amplitude > vibration_counter
Vibrates(amplitude, counter) == amplitude > counter

\* Adapter::UpdateVibrations
UpdateVibrations ==
    /\ vibration_counter' = (vibration_counter + 1) % vibration_states
    /\ enable_vibration' =
           [p \in Ports |-> Vibrates(rumble_amplitude[p], vibration_counter')]
    /\ vib_log' = [p \in Ports |-> Logged(vib_log[p], enable_vibration'[p])]
    /\ UNCHANGED rumble_amplitude
    /\ UNCHANGED <<managerVars, exceptVib>>

\* Adapter::RumblePlay
RumblePlay(port, amplitude) ==
    /\ rumble_amplitude' = [rumble_amplitude EXCEPT ![port] = amplitude]
    /\ vib_log' = [vib_log EXCEPT ![port] = <<>>]
    /\ UNCHANGED <<vibration_counter, enable_vibration>>
    /\ UNCHANGED <<managerVars, exceptVib>>

\* Adapter::ResetDevice
ResetDevice(port) ==
    /\ enable_vibration' = [enable_vibration EXCEPT ![port] = FALSE]
    /\ rumble_amplitude' = [rumble_amplitude EXCEPT ![port] = 0]
    /\ vib_log' = [vib_log EXCEPT ![port] = <<>>]
    /\ UNCHANGED vibration_counter
    /\ UNCHANGED <<managerVars, exceptVib>>

\* ------------------------------------------------------------------ GameList

\* constexpr int LIMIT_WATCH_DIRECTORIES
LIMIT_WATCH_DIRECTORIES == 5000

\* constexpr int SLICE_SIZE
SLICE_SIZE == 25

\* the watch lists tried have 0 .. MaxWatchLength entries, or one less
\* than, as many as, or one more than LIMIT_WATCH_DIRECTORIES
MaxWatchLength == 60

WatchLengths ==
    (0 .. MaxWatchLength)
        \cup (LIMIT_WATCH_DIRECTORIES - 1 .. LIMIT_WATCH_DIRECTORIES + 1)

\* no call of DonePopulating has been made
InitDp ==
    /\ watch_length = 0
    /\ dp_len = 0
    /\ dp_i = 0
    /\ dp_pc = "idle"
    /\ add_log = <<>>

\* std::min
Min(a, b) == IF a < b THEN a ELSE b

\* QStringList::mid(pos, length) of a list of size entries, pos < size:
\* the entries from pos on, length of them or all that are left
Mid(size, pos, length) ==
    [pos |-> pos, count |-> Min(length, size - pos)]

\* watch_list.mid(i, i + SLICE_SIZE)
Slice(size, i) == Mid(size, i, i + SLICE_SIZE)

\* DonePopulating up to its loop: the watcher is emptied, len is computed
DonePopulatingBegin(length) ==
    /\ dp_pc = "idle"
    /\ watch_length' = length
    /\ dp_len' = Min(length, LIMIT_WATCH_DIRECTORIES)
    /\ dp_i' = 0
    /\ add_log' = <<>>
    /\ dp_pc' = "loop"
    /\ UNCHANGED <<managerVars, exceptDp>>

\* one pass of the loop: addPaths and processEvents
DonePopulatingAdd ==
    /\ dp_pc = "loop"
    /\ dp_i < dp_len
    /\ add_log' = Append(add_log, Slice(watch_length, dp_i))
    /\ dp_i' = dp_i + SLICE_SIZE
    /\ UNCHANGED <<watch_length, dp_len, dp_pc>>
    /\ UNCHANGED <<managerVars, exceptDp>>

\* the loop ends and DonePopulating returns
DonePopulatingEnd ==
    /\ dp_pc = "loop"
    /\ ~(dp_i < dp_len)
    /\ dp_pc' = "idle"
    /\ UNCHANGED <<watch_length, dp_len, dp_i, add_log>>
    /\ UNCHANGED <<managerVars, exceptDp>>

\* the number of paths handed to the watcher by the calls of log
RECURSIVE Handed(_)
Handed(log) ==
    IF log = <<>> THEN 0 ELSE Head(log).count + Handed(Tail(log))

InitObj ==
    /\ InitMon
    /\ InitBp
    /\ InitBar
    /\ InitTm
    /\ InitLc
    /\ InitPort
    /\ InitKsp
    /\ InitEv
    /\ InitGc
    /\ InitVib
    /\ InitDp

\* ------------------------------------------------------------------ CpuManager

\* CpuManager::GetCurrentCoreManager: the index it dereferences
GetCurrentCoreManager == active_core

\* Timing.SwitchContext / the context CanCurrentContextRun refers to: the
\* last core the timing context was switched to (core 0 before any switch)
TimingContext(sw) == IF sw = <<>> THEN 0 ELSE sw[Len(sw)]

\* the slice is given whatever CanCurrentContextRun returned
SliceGiven_Always(can_run) == TRUE

\* if (core_timing.CanCurrentContextRun()) core_managers[active_core]->RunLoop
SliceGiven(can_run) == can_run

\* the loop condition with <= for <
LoopContinues_OffByOne(keep, n, max) == keep /\ n <= max

\* the condition of the do-while in CpuManager::RunLoop
LoopContinues(keep, n, max) == keep /\ n < max

LoopValues == 0 .. MaxLoops

\* passes of one call that are explored; an unconnected call is not bounded
\* by gdbstub_loops
MaxPasses == MaxLoops + 2

Init ==
    /\ server_enabled \in BOOLEAN
    /\ connected = FALSE
    /\ halt_flag = FALSE
    /\ step_flags = {}
    /\ current = [c \in Cores |-> NoThread]
    /\ pc = "idle"
    /\ tight_loop = FALSE
    /\ active_core = 0
    /\ keep_running = FALSE
    /\ num_loops = 0
    /\ max_loops \in LoopValues
    /\ passes = 0
    /\ slice = NoSlice
    /\ switched = <<>>
    /\ error_halt = "none"
    /\ broke = FALSE
    /\ use_multi_core = FALSE
    /\ idx = 0
    /\ thread_to_cpu = {}
    /\ hst = [h \in HelperThreads |-> "none"]
    /\ rpc = [h \in HostThreads |-> "out"]
    /\ hle_lock = NoHolder
    /\ barrier = "none"
    /\ system_powered_on = TRUE
    /\ cores_alive = TRUE
    /\ after_end = [h \in HelperThreads |-> 0]
    /\ InitObj

\* history: the halt flag found by a HandlePacket call that ends in a
\* protocol error
ErrorHalt(enabled, p, halt) ==
    IF enabled /\ p.kind = "error"
    THEN IF halt THEN "set" ELSE "clear"
    ELSE "none"

\* CpuManager::RunLoop up to the first pass: HandlePacket when the server is
\* enabled, ResetRun, the locals
RunLoopEnterWith(tight, p) ==
    /\ pc = "idle"
    /\ tight_loop' = tight
    /\ IF server_enabled
       THEN /\ connected' = HandlePacketConnected(p, connected)
            /\ halt_flag' = HandlePacketHalt(p, halt_flag)
            /\ step_flags' = HandlePacketStep(p, step_flags)
       ELSE /\ p.kind = "none"
            /\ UNCHANGED <<connected, halt_flag, step_flags>>
    /\ keep_running' = FALSE
    /\ num_loops' = 0
    /\ active_core' = 0
    /\ passes' = 0
    /\ slice' = NoSlice
    /\ switched' = <<>>
    /\ error_halt' = ErrorHalt(server_enabled, p, halt_flag)
    /\ broke' = (broke /\ ~(server_enabled /\ p.kind = "continue"))
    /\ pc' = "pass"
    /\ UNCHANGED objVars
    /\ UNCHANGED <<server_enabled, current, max_loops, mcVars>>

RunLoopEnter ==
    \E tight \in BOOLEAN, p \in Packets : RunLoopEnterWith(tight, p)

\* one iteration of the for loop: SwitchContext, CanCurrentContextRun, the
\* slice of core_managers[active_core], keep_running
Dispatch ==
    /\ pc = "pass"
    /\ active_core < NUM_CPU_CORES
    /\ switched' = Append(switched, active_core)
    /\ \E can_run \in BOOLEAN, can_after \in BOOLEAN :
        /\ IF SliceGiven(can_run)
           THEN \E t1 \in Selectable(current, active_core),
                   t2 \in Selectable(current, active_core) :
                  LET path == RunLoopPath(t1, halt_flag, step_flags, tight_loop)
                  IN /\ slice' =
                          [called |-> TRUE, via |-> "CpuManager",
                           core |-> active_core,
                           context |-> TimingContext(switched'),
                           can_run |-> can_run,
                           entry_halt |-> halt_flag,
                           sched_thread |-> t1,
                           calls |-> RunLoopCalls(path)]
                     /\ halt_flag' = RunLoopHalt(path, halt_flag)
                     /\ broke' = (broke \/ path = "break_step")
                     /\ current' = [current EXCEPT ![active_core] = t2]
           ELSE UNCHANGED <<slice, halt_flag, broke, current>>
        /\ keep_running' = (keep_running \/ can_after)
    /\ active_core' = active_core + 1
    /\ UNCHANGED objVars
    /\ UNCHANGED <<server_enabled, connected, step_flags, pc, tight_loop,
                   num_loops, max_loops, passes, error_halt, mcVars>>

\* the end of a pass: num_loops, the loop condition
PassEnd ==
    /\ pc = "pass"
    /\ active_core = NUM_CPU_CORES
    /\ passes < MaxPasses
    /\ LET n == IF connected THEN num_loops + 1 ELSE num_loops
       IN /\ num_loops' = n
          /\ passes' = passes + 1
          /\ IF LoopContinues(keep_running, n, max_loops)
             THEN /\ keep_running' = FALSE
                  /\ active_core' = 0
                  /\ switched' = <<>>
                  /\ pc' = "pass"
             ELSE /\ pc' = "idle"
                  /\ UNCHANGED <<keep_running, active_core, switched>>
    /\ UNCHANGED objVars
    /\ UNCHANGED <<gdbVars, current, tight_loop, max_loops, slice,
                   error_halt, broke, mcVars>>

\* CoreManager::SingleStep on the CoreManager of core c, called while no
\* CpuManager::RunLoop call is in progress
SingleStep ==
    /\ pc = "idle"
    /\ \E c \in Cores :
         \E t1 \in Selectable(current, c), t2 \in Selectable(current, c) :
            LET path ==
                  RunLoopPath(t1, halt_flag, step_flags, SingleStepTight)
            IN /\ slice' =
                    [called |-> TRUE, via |-> "SingleStep", core |-> c,
                     context |-> TimingContext(switched),
                     can_run |-> FALSE,
                     entry_halt |-> halt_flag,
                     sched_thread |-> t1,
                     calls |-> RunLoopCalls(path)]
               /\ halt_flag' = RunLoopHalt(path, halt_flag)
               /\ broke' = (broke \/ path = "break_step")
               /\ current' = [current EXCEPT ![c] = t2]
    /\ UNCHANGED objVars
    /\ UNCHANGED <<server_enabled, connected, step_flags, pc, loopVars,
                   passes, switched, error_halt, mcVars>>

Next == RunLoopEnter \/ Dispatch \/ PassEnd \/ SingleStep

Spec == Init /\ [][Next]_vars

\* ------------------------------------------------------------------ CpuCoreManager

\* the core a host thread drives: a helper thread its own core, the manager
\* thread the core its RunLoop is dispatching
CoreOf(h) == IF h = MainThread THEN active_core ELSE h

\* the tight_loop argument of a host thread's CoreManager::RunLoop call
TightOf(h) == IF h = MainThread THEN tight_loop ELSE TRUE

\* std::lock_guard on HLE::g_hle_lock: construction waits for the lock
LockAvailable_Ignored(lock) == TRUE

LockAvailable(lock) == lock = NoHolder

\* std::lock_guard on HLE::g_hle_lock: the lock after the scope is left
Unlock_Leaked(lock) == lock

Unlock(lock) == NoHolder

\* the loop condition of RunCpuCore
RunCpuCoreContinues_Forever(powered_on) == TRUE

RunCpuCoreContinues(powered_on) == powered_on

\* System::IsPoweredOn
IsPoweredOn == system_powered_on

\* CpuCoreManager::GetCurrentCore in multi-core mode: the lookup of the
\* calling host thread's id succeeds
GetCurrentCoreFound(h) == h \in thread_to_cpu

InitMC ==
    /\ server_enabled = TRUE
    /\ connected = TRUE
    /\ halt_flag = FALSE
    /\ step_flags = {}
    /\ current = [c \in Cores |-> NoThread]
    /\ pc = "new"
    /\ tight_loop = FALSE
    /\ active_core = 0
    /\ keep_running = FALSE
    /\ num_loops = 0
    /\ max_loops = 0
    /\ passes = 0
    /\ slice = NoSlice
    /\ switched = <<>>
    /\ error_halt = "none"
    /\ broke = FALSE
    /\ use_multi_core \in BOOLEAN
    /\ idx = 0
    /\ thread_to_cpu = {}
    /\ hst = [h \in HelperThreads |-> "none"]
    /\ rpc = [h \in HostThreads |-> "out"]
    /\ hle_lock = NoHolder
    /\ barrier = "none"
    /\ system_powered_on = TRUE
    /\ cores_alive = FALSE
    /\ after_end = [h \in HelperThreads |-> 0]
    /\ InitObj

\* CpuCoreManager::Initialize
Initialize ==
    /\ pc = "new"
    /\ barrier' = "Open"
    /\ cores_alive' = TRUE
    /\ pc' = "inited"
    /\ UNCHANGED objVars
    /\ UNCHANGED <<gdbVars, current, loopVars, histVars, use_multi_core,
                   idx, thread_to_cpu, hst, rpc, hle_lock, system_powered_on,
                   after_end>>

\* CpuCoreManager::StartThreads up to the loop: the calling thread is bound
\* to cores[0]; single-core mode returns
StartThreads ==
    /\ pc = "inited"
    /\ thread_to_cpu' = thread_to_cpu \cup {MainThread}
    /\ idx' = 0
    /\ pc' = IF ~use_multi_core THEN "ready" ELSE "spawn"
    /\ UNCHANGED objVars
    /\ UNCHANGED <<gdbVars, current, loopVars, histVars, use_multi_core,
                   hst, rpc, hle_lock, barrier, system_powered_on,
                   cores_alive, after_end>>

\* StartThreads: std::thread(RunCpuCore, ...) for cores[idx + 1]; the new
\* thread runs from here on
SpawnThread ==
    /\ pc = "spawn"
    /\ hst' = [hst EXCEPT ![idx + 1] = "running"]
    /\ pc' = "insert"
    /\ UNCHANGED objVars
    /\ UNCHANGED <<gdbVars, current, loopVars, histVars, use_multi_core,
                   idx, thread_to_cpu, rpc, hle_lock, barrier,
                   system_powered_on, cores_alive, after_end>>

\* StartThreads: thread_to_cpu[core_threads[idx]->get_id()] = cores[idx + 1]
InsertThread ==
    /\ pc = "insert"
    /\ thread_to_cpu' = thread_to_cpu \cup {idx + 1}
    /\ idx' = idx + 1
    /\ pc' = IF idx + 1 < NUM_CORE_THREADS THEN "spawn" ELSE "ready"
    /\ UNCHANGED objVars
    /\ UNCHANGED <<gdbVars, current, loopVars, histVars, use_multi_core,
                   hst, rpc, hle_lock, barrier, system_powered_on,
                   cores_alive, after_end>>

\* RunCpuCore: the loop condition; a true condition enters RunLoop(true)
HelperLoop(h) ==
    /\ hst[h] = "running"
    /\ rpc[h] = "out"
    /\ IF RunCpuCoreContinues(IsPoweredOn)
       THEN /\ rpc' = [rpc EXCEPT ![h] = "r1"]
            /\ hst' = hst
       ELSE /\ hst' = [hst EXCEPT ![h] = "exited"]
            /\ rpc' = rpc
    /\ UNCHANGED objVars
    /\ UNCHANGED <<gdbVars, current, pc, loopVars, histVars,
                   use_multi_core, idx, thread_to_cpu, hle_lock, barrier,
                   system_powered_on, cores_alive, after_end>>

\* CoreManager::Reschedule, first half: the lock is taken and
\* SelectThread(core_index) is called.  The first Reschedule is the first
\* thing a RunLoop call does: after_end counts the calls a helper thread
\* begins once NotifyEnd has been called (it saturates at 2).
RescheduleSelect(h) ==
    /\ rpc[h] \in {"r1", "r2"}
    /\ LockAvailable(hle_lock)
    /\ hle_lock' = h
    /\ rpc' = [rpc EXCEPT ![h] = IF @ = "r1" THEN "r1sw" ELSE "r2sw"]
    /\ after_end' =
         IF h \in HelperThreads /\ rpc[h] = "r1" /\ barrier = "Ending"
         THEN [after_end EXCEPT ![h] = IF @ < 2 THEN @ + 1 ELSE @]
         ELSE after_end
    /\ UNCHANGED objVars
    /\ UNCHANGED <<gdbVars, current, pc, loopVars, histVars,
                   use_multi_core, idx, thread_to_cpu, hst, barrier,
                   system_powered_on, cores_alive>>

\* CoreManager::Reschedule, second half: TryDoContextSwitch, then the lock
\* guard leaves scope; the second Reschedule of RunLoop ends the call
RescheduleSwitch(h) ==
    /\ rpc[h] \in {"r1sw", "r2sw"}
    /\ \E t \in Selectable(current, CoreOf(h)) :
          current' = [current EXCEPT ![CoreOf(h)] = t]
    /\ hle_lock' = Unlock(hle_lock)
    /\ rpc' = [rpc EXCEPT ![h] = IF @ = "r1sw" THEN "dec" ELSE "out"]
    /\ UNCHANGED objVars
    /\ UNCHANGED <<gdbVars, pc, loopVars, histVars, use_multi_core, idx,
                   thread_to_cpu, hst, barrier, system_powered_on,
                   cores_alive, after_end>>

\* CoreManager::RunLoop between the Reschedules: the branch on the current
\* thread, the halt flag and the step flag; Break on the step path.  The
\* halted branch goes to the second Reschedule; on the other branches the
\* thread is then inside Idle, Run or Step ("exec").
Decide(h) ==
    /\ rpc[h] = "dec"
    /\ LET path == RunLoopPath(current[CoreOf(h)], halt_flag, step_flags,
                               TightOf(h))
       IN /\ halt_flag' = RunLoopHalt(path, halt_flag)
          /\ rpc' = [rpc EXCEPT ![h] =
                       IF path = "halted" THEN "r2" ELSE "exec"]
    /\ UNCHANGED objVars
    /\ UNCHANGED <<server_enabled, connected, step_flags, current, pc,
                   loopVars, histVars, use_multi_core, idx,
                   thread_to_cpu, hst, hle_lock, barrier, system_powered_on,
                   cores_alive, after_end>>

\* Idle and PrepareReschedule, Run or Step return; Timing.Advance
Execute(h) ==
    /\ rpc[h] = "exec"
    /\ rpc' = [rpc EXCEPT ![h] = "r2"]
    /\ UNCHANGED objVars
    /\ UNCHANGED <<gdbVars, current, pc, loopVars, histVars,
                   use_multi_core, idx, thread_to_cpu, hst, hle_lock, barrier,
                   system_powered_on, cores_alive, after_end>>

\* a host thread's step inside CoreManager::RunLoop
RunLoopStep(h) ==
    \/ RescheduleSelect(h)
    \/ RescheduleSwitch(h)
    \/ Decide(h)
    \/ Execute(h)

\* CpuCoreManager::RunLoop up to the loop: core 0 is re-bound to the calling
\* thread, ResetRun
McRunLoopEnter ==
    /\ pc = "ready"
    /\ \E tight \in BOOLEAN : tight_loop' = tight
    /\ thread_to_cpu' = thread_to_cpu \cup {MainThread}
    /\ pc' = "rl_hp"
    /\ UNCHANGED objVars
    /\ UNCHANGED <<gdbVars, current, active_core, keep_running, num_loops,
                   max_loops, histVars, use_multi_core, idx, hst, rpc,
                   hle_lock, barrier, system_powered_on, cores_alive,
                   after_end>>

\* the head of a pass: HandlePacket, keep_running = false, active_core = 0
\* (the debugger stays connected: no protocol error is explored here)
McHandlePacket ==
    /\ pc = "rl_hp"
    /\ \E p \in Packets :
        /\ p.kind # "error"
        /\ connected' = HandlePacketConnected(p, connected)
        /\ halt_flag' = HandlePacketHalt(p, halt_flag)
        /\ step_flags' = HandlePacketStep(p, step_flags)
    /\ keep_running' = FALSE
    /\ active_core' = 0
    /\ pc' = "rl_sw"
    /\ UNCHANGED objVars
    /\ UNCHANGED <<server_enabled, current, tight_loop, num_loops, max_loops,
                   histVars, mcVars>>

\* SwitchContext(active_core) and CanCurrentContextRun: the manager thread
\* enters cores[active_core]->RunLoop, or skips the core
McDispatch ==
    /\ pc = "rl_sw"
    /\ active_core < NUM_CPU_CORES
    /\ \E can_run \in BOOLEAN, can_after \in BOOLEAN :
         IF can_run
         THEN /\ rpc' = [rpc EXCEPT ![MainThread] = "r1"]
              /\ pc' = "rl_in"
              /\ UNCHANGED <<keep_running, active_core>>
         ELSE /\ keep_running' = (keep_running \/ can_after)
              /\ active_core' = active_core + 1
              /\ UNCHANGED <<rpc, pc>>
    /\ UNCHANGED objVars
    /\ UNCHANGED <<gdbVars, current, tight_loop, num_loops, max_loops,
                   histVars, use_multi_core, idx, thread_to_cpu, hst, hle_lock,
                   barrier, system_powered_on, cores_alive, after_end>>

\* the manager thread's RunLoop call on cores[active_core] has returned:
\* keep_running, ++active_core
McAfterSlice ==
    /\ pc = "rl_in"
    /\ rpc[MainThread] = "out"
    /\ \E can_after \in BOOLEAN : keep_running' = (keep_running \/ can_after)
    /\ active_core' = active_core + 1
    /\ pc' = "rl_sw"
    /\ UNCHANGED objVars
    /\ UNCHANGED <<gdbVars, current, tight_loop, num_loops, max_loops,
                   histVars, mcVars>>

\* the end of a pass: while (keep_running)
McPassEnd ==
    /\ pc = "rl_sw"
    /\ active_core = NUM_CPU_CORES
    /\ pc' = IF keep_running THEN "rl_hp" ELSE "ready"
    /\ tight_loop' = IF keep_running THEN tight_loop ELSE FALSE
    /\ UNCHANGED objVars
    /\ UNCHANGED <<gdbVars, current, active_core, keep_running, num_loops,
                   max_loops, histVars, mcVars>>

\* the system is powered off before its CPU manager is shut down
PowerOff ==
    /\ pc = "ready"
    /\ system_powered_on' = FALSE
    /\ pc' = "sd_notify"
    /\ UNCHANGED objVars
    /\ UNCHANGED <<gdbVars, current, loopVars, histVars, use_multi_core,
                   idx, thread_to_cpu, hst, rpc, hle_lock, barrier,
                   cores_alive, after_end>>

\* Shutdown without the joins
AfterNotifyEnd_NoJoin(multi_core) == "sd_clear"

\* Shutdown: if (Settings::values.use_multi_core) the helper threads are
\* joined before anything is cleared
AfterNotifyEnd(multi_core) == IF multi_core THEN "sd_join" ELSE "sd_clear"

\* CpuCoreManager::Shutdown: barrier->NotifyEnd()
NotifyEnd ==
    /\ pc = "sd_notify"
    /\ barrier' = "Ending"
    /\ idx' = 0
    /\ pc' = AfterNotifyEnd(use_multi_core)
    /\ UNCHANGED objVars
    /\ UNCHANGED <<gdbVars, current, loopVars, histVars, use_multi_core,
                   thread_to_cpu, hst, rpc, hle_lock, system_powered_on,
                   cores_alive, after_end>>

\* Shutdown: thread->join() returns once the thread has left RunCpuCore
JoinThread ==
    /\ pc = "sd_join"
    /\ hst[idx + 1] = "exited"
    /\ hst' = [hst EXCEPT ![idx + 1] = "joined"]
    /\ idx' = idx + 1
    /\ pc' = IF idx + 1 < NUM_CORE_THREADS THEN "sd_join" ELSE "sd_clear"
    /\ UNCHANGED objVars
    /\ UNCHANGED <<gdbVars, current, loopVars, histVars, use_multi_core,
                   thread_to_cpu, rpc, hle_lock, barrier, system_powered_on,
                   cores_alive, after_end>>

\* Shutdown: thread_to_cpu.clear()
ClearMap ==
    /\ pc = "sd_clear"
    /\ thread_to_cpu' = {}
    /\ pc' = "sd_destroy"
    /\ UNCHANGED objVars
    /\ UNCHANGED <<gdbVars, current, loopVars, histVars, use_multi_core,
                   idx, hst, rpc, hle_lock, barrier, system_powered_on,
                   cores_alive, after_end>>

\* Shutdown: cpu_core->Shutdown() and cpu_core.reset() for every core
DestroyCores ==
    /\ pc = "sd_destroy"
    /\ cores_alive' = FALSE
    /\ pc' = "sd_monitor"
    /\ UNCHANGED objVars
    /\ UNCHANGED <<gdbVars, current, loopVars, histVars, use_multi_core,
                   idx, thread_to_cpu, hst, rpc, hle_lock, barrier,
                   system_powered_on, after_end>>

\* Shutdown: exclusive_monitor.reset()
DestroyMonitor ==
    /\ pc = "sd_monitor"
    /\ pc' = "sd_barrier"
    /\ UNCHANGED objVars
    /\ UNCHANGED <<gdbVars, current, loopVars, histVars, mcVars>>

\* Shutdown: barrier.reset()
DestroyBarrier ==
    /\ pc = "sd_barrier"
    /\ barrier' = "none"
    /\ pc' = "off"
    /\ UNCHANGED objVars
    /\ UNCHANGED <<gdbVars, current, loopVars, histVars, use_multi_core,
                   idx, thread_to_cpu, hst, rpc, hle_lock, system_powered_on,
                   cores_alive, after_end>>

ManagerRunLoop ==
    \/ McRunLoopEnter
    \/ McHandlePacket
    \/ McDispatch
    \/ McAfterSlice
    \/ McPassEnd
    \/ (pc = "rl_in" /\ RunLoopStep(MainThread))

ManagerLifecycle ==
    \/ Initialize
    \/ StartThreads
    \/ SpawnThread
    \/ InsertThread
    \/ PowerOff
    \/ NotifyEnd
    \/ JoinThread
    \/ ClearMap
    \/ DestroyCores
    \/ DestroyMonitor
    \/ DestroyBarrier

Helper(h) == HelperLoop(h) \/ RunLoopStep(h)

NextMC ==
    \/ ManagerLifecycle
    \/ ManagerRunLoop
    \/ \E h \in HelperThreads : Helper(h)

SpecMC == InitMC /\ [][NextMC]_vars

\* Start-up and shutdown alone: the manager thread makes no RunLoop call of
\* its own; the flags its HandlePacket calls would have left are drawn at
\* the start.
InitSD ==
    /\ server_enabled = TRUE
    /\ connected = TRUE
    /\ halt_flag \in BOOLEAN
    /\ step_flags \in SUBSET Threads
    /\ current = [c \in Cores |-> NoThread]
    /\ pc = "new"
    /\ tight_loop = FALSE
    /\ active_core = 0
    /\ keep_running = FALSE
    /\ num_loops = 0
    /\ max_loops = 0
    /\ passes = 0
    /\ slice = NoSlice
    /\ switched = <<>>
    /\ error_halt = "none"
    /\ broke = FALSE
    /\ use_multi_core \in BOOLEAN
    /\ idx = 0
    /\ thread_to_cpu = {}
    /\ hst = [h \in HelperThreads |-> "none"]
    /\ rpc = [h \in HostThreads |-> "out"]
    /\ hle_lock = NoHolder
    /\ barrier = "none"
    /\ system_powered_on = TRUE
    /\ cores_alive = FALSE
    /\ after_end = [h \in HelperThreads |-> 0]
    /\ InitObj

NextSD ==
    \/ ManagerLifecycle
    \/ \E h \in HelperThreads : Helper(h)

\* the host schedules every runnable thread: a helper thread that can take
\* a step eventually takes one (in particular Idle, Run and Step return and
\* a free lock is obtained), and the manager thread's join returns once the
\* joined thread has finished
SpecSD ==
    /\ InitSD
    /\ [][NextSD]_vars
    /\ WF_vars(JoinThread)
    /\ \A h \in HelperThreads : WF_vars(Helper(h))

\* The lifecycle with the setting free: Settings::values.use_multi_core is
\* read anew by StartThreads and by Shutdown and may have changed between
\* the calls
SetMultiCore ==
    /\ pc \in {"new", "inited", "ready", "sd_notify"}
    /\ use_multi_core' = ~use_multi_core
    /\ UNCHANGED objVars
    /\ UNCHANGED <<gdbVars, current, pc, loopVars, histVars, idx,
                   thread_to_cpu, hst, rpc, hle_lock, barrier,
                   system_powered_on, cores_alive, after_end>>

\* Shutdown is called on a manager whose StartThreads was never called
SkipStartThreads ==
    /\ pc = "inited"
    /\ pc' = "ready"
    /\ UNCHANGED objVars
    /\ UNCHANGED <<gdbVars, current, loopVars, histVars, use_multi_core,
                   idx, thread_to_cpu, hst, rpc, hle_lock, barrier,
                   system_powered_on, cores_alive, after_end>>

\* Shutdown: thread->join() through a core_threads entry that holds no
\* thread, a null pointer dereference: the process stops there or goes on
JoinNull ==
    /\ pc = "sd_join"
    /\ hst[idx + 1] = "none"
    /\ null_join' = TRUE
    /\ \/ /\ pc' = "crashed"
          /\ UNCHANGED idx
       \/ /\ idx' = idx + 1
          /\ pc' = IF idx + 1 < NUM_CORE_THREADS THEN "sd_join"
                   ELSE "sd_clear"
    /\ UNCHANGED <<gdbVars, current, loopVars, histVars, use_multi_core,
                   thread_to_cpu, hst, rpc, hle_lock, barrier,
                   system_powered_on, cores_alive, after_end, exceptLc>>

NextLC ==
    \/ ManagerLifecycle
    \/ SetMultiCore
    \/ SkipStartThreads
    \/ JoinNull
    \/ \E h \in HelperThreads : Helper(h)

SpecLC == InitSD /\ [][NextLC]_vars

\* ------------------------------------------------------------------ other objects

\* the state of a manager on which nothing is called
ManagerQuiet ==
    /\ server_enabled = FALSE
    /\ connected = FALSE
    /\ halt_flag = FALSE
    /\ step_flags = {}
    /\ current = [c \in Cores |-> NoThread]
    /\ pc = "idle"
    /\ tight_loop = FALSE
    /\ active_core = 0
    /\ keep_running = FALSE
    /\ num_loops = 0
    /\ max_loops = 0
    /\ passes = 0
    /\ slice = NoSlice
    /\ switched = <<>>
    /\ error_halt = "none"
    /\ broke = FALSE
    /\ use_multi_core = FALSE
    /\ idx = 0
    /\ thread_to_cpu = {}
    /\ hst = [h \in HelperThreads |-> "none"]
    /\ rpc = [h \in HostThreads |-> "out"]
    /\ hle_lock = NoHolder
    /\ barrier = "none"
    /\ system_powered_on = TRUE
    /\ cores_alive = TRUE
    /\ after_end = [h \in HelperThreads |-> 0]

\* the cores use the exclusive monitor, in any order
MonReserve ==
    /\ \E c \in Cores, a \in MonAddrs, w \in MonWidths : Reserve(c, a, w)
    /\ UNCHANGED <<managerVars, exceptMon>>

MonStore ==
    /\ \E c \in Cores, a \in MonAddrs, w \in MonWidths : Store(c, a, w)
    /\ UNCHANGED <<managerVars, exceptMon>>

MonCheckAndClear ==
    /\ \E c \in Cores, a \in MonAddrs, w \in MonWidths :
          CheckAndClear(c, a, w)
    /\ UNCHANGED <<managerVars, exceptMon>>

MonClearAll ==
    /\ \E c \in Cores : ClearAll(c)
    /\ UNCHANGED <<managerVars, exceptMon>>

InitMonitor == ManagerQuiet /\ InitObj

NextMon == MonReserve \/ MonStore \/ MonCheckAndClear \/ MonClearAll

SpecMon == InitMonitor /\ [][NextMon]_vars

\* the debugger inserts and removes breakpoints and the cores query the
\* table, in any order
BpInsert ==
    /\ \E a \in BpAddrs, t \in BreakpointTypes, valid \in BOOLEAN :
          InsertBreakpoint(a, t, valid)
    /\ UNCHANGED <<managerVars, exceptBp>>

BpRemove ==
    /\ \E a \in BpAddrs, t \in BreakpointTypes : RemoveBreakpoint(a, t)
    /\ UNCHANGED <<managerVars, exceptBp>>

BpCheck ==
    /\ \E a \in BpAddrs, t \in BreakpointTypes : CallCheckBreakpoint(a, t)
    /\ UNCHANGED <<managerVars, exceptBp>>

BpGetNext ==
    /\ \E a \in BpAddrs, t \in BreakpointTypes :
          CallGetNextBreakpoint(a, t)
    /\ UNCHANGED <<managerVars, exceptBp>>

NextBp == BpInsert \/ BpRemove \/ BpCheck \/ BpGetNext

SpecBp == InitMonitor /\ [][NextBp]_vars

\* CpuManager::RunLoop with the timing subsystem: the head of the call
TmRunLoopEnter ==
    /\ pc = "idle"
    /\ \E tight \in BOOLEAN, p \in Packets :
        /\ tight_loop' = tight
        /\ IF server_enabled
           THEN /\ connected' = HandlePacketConnected(p, connected)
                /\ halt_flag' = HandlePacketHalt(p, halt_flag)
                /\ step_flags' = HandlePacketStep(p, step_flags)
           ELSE /\ p.kind = "none"
                /\ UNCHANGED <<connected, halt_flag, step_flags>>
        /\ error_halt' = ErrorHalt(server_enabled, p, halt_flag)
        /\ broke' = (broke /\ ~(server_enabled /\ p.kind = "continue"))
    /\ time_slice' = ResetRun
    /\ keep_running' = FALSE
    /\ num_loops' = 0
    /\ active_core' = 0
    /\ passes' = 0
    /\ slice' = NoSlice
    /\ switched' = <<>>
    /\ pc' = "pass"
    /\ UNCHANGED <<server_enabled, current, max_loops, mcVars, exceptTm>>

\* one iteration of the for loop
TmDispatch ==
    /\ pc = "pass"
    /\ active_core < NUM_CPU_CORES
    /\ switched' = Append(switched, active_core)
    /\ LET can_run == CanCurrentContextRun(time_slice, active_core)
       IN IF SliceGiven(can_run)
          THEN \E t1 \in Selectable(current, active_core),
                  t2 \in Selectable(current, active_core) :
                 LET path == RunLoopPath(t1, halt_flag, step_flags, tight_loop)
                 IN /\ slice' =
                         [called |-> TRUE, via |-> "CpuManager",
                          core |-> active_core,
                          context |-> TimingContext(switched'),
                          can_run |-> can_run,
                          entry_halt |-> halt_flag,
                          sched_thread |-> t1,
                          calls |-> RunLoopCalls(path)]
                    /\ halt_flag' = RunLoopHalt(path, halt_flag)
                    /\ broke' = (broke \/ path = "break_step")
                    /\ current' = [current EXCEPT ![active_core] = t2]
                    /\ \E left \in SliceLeft(path, time_slice[active_core]) :
                          time_slice' =
                              [time_slice EXCEPT ![active_core] = left]
          ELSE UNCHANGED <<slice, halt_flag, broke, current, time_slice>>
    /\ keep_running' =
          (keep_running \/ CanCurrentContextRun(time_slice', active_core))
    /\ active_core' = active_core + 1
    /\ UNCHANGED <<server_enabled, connected, step_flags, pc, tight_loop,
                   num_loops, max_loops, passes, error_halt, mcVars,
                   exceptTm>>

\* the end of a pass; the history counter stops at MaxPasses
TmPassEnd ==
    /\ pc = "pass"
    /\ active_core = NUM_CPU_CORES
    /\ LET n == IF connected THEN num_loops + 1 ELSE num_loops
       IN /\ num_loops' = n
          /\ passes' = IF passes < MaxPasses THEN passes + 1 ELSE passes
          /\ IF LoopContinues(keep_running, n, max_loops)
             THEN /\ keep_running' = FALSE
                  /\ active_core' = 0
                  /\ switched' = <<>>
                  /\ pc' = "pass"
             ELSE /\ pc' = "idle"
                  /\ UNCHANGED <<keep_running, active_core, switched>>
    /\ UNCHANGED <<gdbVars, current, tight_loop, max_loops, slice,
                   error_halt, broke, mcVars, objVars>>

NextTm == TmRunLoopEnter \/ TmDispatch \/ TmPassEnd

\* a call that has begun goes on: the loop takes its next step
SpecTm ==
    /\ Init
    /\ [][NextTm]_vars
    /\ WF_vars(TmDispatch)
    /\ WF_vars(TmPassEnd)

\* any thread may call NotifyEnd at any time; every host thread may call
\* Wait
BarNotifyEnd ==
    /\ BarrierNotifyEnd
    /\ UNCHANGED <<managerVars, exceptBar>>

BarWait(h) ==
    /\ BarrierWait(h)
    /\ UNCHANGED <<managerVars, exceptBar>>

BarWake(h) ==
    /\ BarrierWake(h)
    /\ UNCHANGED <<managerVars, exceptBar>>

NextBar ==
    \/ BarNotifyEnd
    \/ \E h \in HostThreads : BarWait(h)
    \/ \E h \in HostThreads : BarWake(h)

\* a thread that can be resumed is resumed
SpecBar ==
    /\ InitMonitor
    /\ [][NextBar]_vars
    /\ \A h \in HostThreads : WF_vars(BarWake(h))

\* a client enqueues sessions, the server accepts them, the port is
\* destroyed once
PortEnqueue ==
    /\ \E s \in Sessions : EnqueueSession(s)
    /\ UNCHANGED <<managerVars, exceptPort>>

PortAccept ==
    /\ AcceptSession
    /\ UNCHANGED <<managerVars, exceptPort>>

PortDestroy ==
    /\ Destroy
    /\ UNCHANGED <<managerVars, exceptPort>>

NextPort == PortEnqueue \/ PortAccept \/ PortDestroy

SpecPort == InitMonitor /\ [][NextPort]_vars

\* a client thread enqueues sessions, a server thread accepts them and a
\* third thread runs CleanupSessions once
NextKsp ==
    \/ \E s \in Sessions : EnqLock(s)
    \/ EnqBody
    \/ AccLock
    \/ AccBody
    \/ CleanupBegin
    \/ CleanupLock
    \/ CleanupPop
    \/ CleanupClose

\* a thread that holds the lock goes on to release it, the cleanup thread
\* keeps running, and a thread that keeps finding the lock free at times
\* obtains it
SpecKsp ==
    /\ InitMonitor
    /\ [][NextKsp]_vars
    /\ WF_vars(EnqBody)
    /\ WF_vars(AccBody)
    /\ SF_vars(CleanupLock)
    /\ WF_vars(CleanupPop)
    /\ WF_vars(CleanupClose)

\* the calls on one EventsInterface, in any order
NextEv ==
    \/ \E i \in EventIds, s \in EventStates : SetEventStatus(i, s)
    \/ \E i \in EventIds : RegisterEvent(i)
    \/ \E i \in EventIds : UnregisterEvent(i)
    \/ \E i \in EventIds : LiberateEvent(i)
    \/ CallGetFreeEvent
    \/ SetOthersBusy

SpecEv == InitMonitor /\ [][NextEv]_vars

\* the thread that calls Reset, the scan thread and the input thread, each
\* at its own pace
NextGc ==
    \/ JoinThreadsClear
    \/ JoinThreadsScan
    \/ JoinThreadsScanDone
    \/ JoinThreadsInput
    \/ JoinThreadsInputDone
    \/ ScanStart
    \/ ScanJoinInput
    \/ ScanJoinInputDone
    \/ ScanLoop
    \/ Setup
    \/ SetupSpawn
    \/ InputJoinScan
    \/ InputJoinScanDone
    \/ InputLoop
    \/ InputRestart
    \/ InputExit

SpecGc == InitMonitor /\ [][NextGc]_vars

NextVib ==
    \/ UpdateVibrations
    \/ \E port \in Ports, amplitude \in Amplitudes :
          RumblePlay(port, amplitude)
    \/ \E port \in Ports : ResetDevice(port)

SpecVib == InitMonitor /\ [][NextVib]_vars

NextDp ==
    \/ \E length \in WatchLengths : DonePopulatingBegin(length)
    \/ DonePopulatingAdd
    \/ DonePopulatingEnd

SpecDp == InitMonitor /\ [][NextDp]_vars

\* ------------------------------------------------------------------ claims (Spec)

Executed(calls) == Count(calls, "Run") + Count(calls, "Step")

OnlyReschedule(calls) ==
    \A i \in 1 .. Len(calls) : calls[i] = "Reschedule"

\* C1: a CoreManager::RunLoop call entered while halt_flag is true calls
\* neither ArchCore.Run nor ArchCore.Step.
C1_HaltedEntryExecutesNothing ==
    (slice.called /\ slice.entry_halt) => Executed(slice.calls) = 0

\* a halted call was made for a core that has a current thread
C1_Witness ==
    /\ slice.called
    /\ slice.entry_halt
    /\ slice.sched_thread # NoThread

\* C2 as stated: whenever the step flag of the core's current thread T is
\* set, the call makes exactly one Step, no Run, and halt_flag is true when
\* it returns.
C2_StepFlagOnEntry ==
    ( /\ slice.called
      /\ slice.sched_thread # NoThread
      /\ GetThreadStepFlag(step_flags, slice.sched_thread) )
    => ( /\ Count(slice.calls, "Step") = 1
         /\ Count(slice.calls, "Run") = 0
         /\ halt_flag )

\* C2 amended: when halt_flag is false on entry and the step flag of the
\* core's current thread T is set, the call makes exactly one Step, no Run,
\* and halt_flag is true when it returns, whatever the value of tight.
C2_StepFlagNotHalted ==
    ( /\ slice.called
      /\ ~slice.entry_halt
      /\ slice.sched_thread # NoThread
      /\ GetThreadStepFlag(step_flags, slice.sched_thread) )
    => ( /\ Count(slice.calls, "Step") = 1
         /\ Count(slice.calls, "Run") = 0
         /\ halt_flag )

\* a RunLoop(true) call took the step path
C2_Witness ==
    /\ slice.called
    /\ ~slice.entry_halt
    /\ slice.sched_thread # NoThread
    /\ GetThreadStepFlag(step_flags, slice.sched_thread)
    /\ tight_loop
    /\ Count(slice.calls, "Break") = 1

\* C5 as stated: every RunLoop call made while halt_flag is true performs
\* only Reschedule (no Timing.Idle, no Timing.Advance, no instruction).
C5_HaltedOnlyReschedules ==
    (slice.called /\ slice.entry_halt) => OnlyReschedule(slice.calls)

\* C5 amended: every RunLoop call made while halt_flag is true for a core
\* whose current thread after the first Reschedule is not null performs only
\* Reschedule.
C5_HaltedWithThreadOnlyReschedules ==
    (slice.called /\ slice.entry_halt /\ slice.sched_thread # NoThread)
    => OnlyReschedule(slice.calls)

\* a halted RunLoop(true) call in a pass after the first
C5_Witness ==
    /\ slice.called
    /\ slice.entry_halt
    /\ slice.sched_thread # NoThread
    /\ tight_loop
    /\ passes >= 1

\* C8 as stated: while the debugger is connected the passes of a
\* CpuManager::RunLoop call never exceed gdbstub_loops.
C8_PassesWithinLoops ==
    connected => passes <= max_loops

\* C8 amended: while the debugger is connected the passes of a
\* CpuManager::RunLoop call never exceed the larger of 1 and gdbstub_loops.
C8_PassesWithinLoopsOrOne ==
    connected => passes <= Max(1, max_loops)

\* a connected call stopped by the bound while cores could still run
C8_Witness ==
    /\ pc = "idle"
    /\ connected
    /\ keep_running
    /\ max_loops >= 2
    /\ passes = max_loops

\* C9: in single-core mode active_core is a valid core index wherever
\* GetCurrentCoreManager can be called, in particular after
\* CpuManager::RunLoop has returned.
C9_ActiveCoreValid ==
    pc = "idle" => GetCurrentCoreManager \in Cores

\* the positions of a call in the record of a RunLoop call
Positions(calls, name) == {i \in 1 .. Len(calls) : calls[i] = name}

\* C11: when the current thread is null after the first Reschedule, RunLoop
\* calls Timing.Idle exactly once, then PrepareReschedule (ArchCore.Stop),
\* then ends with a Reschedule, and calls neither ArchCore.Run nor
\* ArchCore.Step.
C11_IdleWhenNoThread ==
    (slice.called /\ slice.sched_thread = NoThread)
    => LET c == slice.calls
       IN /\ Count(c, "Idle") = 1
          /\ Count(c, "Stop") = 1
          /\ \A i \in Positions(c, "Idle"), j \in Positions(c, "Stop") :
                i < j /\ j < Len(c)
          /\ c[Len(c)] = "Reschedule"
          /\ Executed(c) = 0

\* a RunLoop(true) call of a pass found no current thread
C11_Witness ==
    /\ slice.called
    /\ slice.via = "CpuManager"
    /\ tight_loop
    /\ slice.sched_thread = NoThread
    /\ Count(slice.calls, "Idle") = 1

\* C12: every RunLoop call, on its idle, halted and executing paths, makes
\* exactly two Reschedule calls, the first before anything else and the
\* second as its last action, with any Run, Step or Idle strictly between.
C12_TwoReschedules ==
    slice.called
    => LET c == slice.calls
       IN /\ Count(c, "Reschedule") = 2
          /\ c[1] = "Reschedule"
          /\ c[Len(c)] = "Reschedule"
          /\ \A i \in 1 .. Len(c) :
                c[i] \in {"Run", "Step", "Idle"} => (1 < i /\ i < Len(c))

\* an executing call: ArchCore.Run between the two Reschedule calls
C12_Witness ==
    /\ slice.called
    /\ Count(slice.calls, "Run") = 1
    /\ Count(slice.calls, "Reschedule") = 2

\* the record of a slice a pass of CpuManager::RunLoop gave
PassSlice == slice.called /\ slice.via = "CpuManager"

\* the cores are visited in index order and a slice is given to the core
\* the timing context was switched to, only when that context can run
C13_Rotation ==
    /\ Len(switched) = active_core
    /\ \A i \in 1 .. Len(switched) : switched[i] = i - 1
    /\ PassSlice => ( /\ slice.core \in Cores
                      /\ slice.context = slice.core
                      /\ slice.can_run )

\* C13 as stated: every pass visits the cores in the order 0,1,2,3, calls
\* SwitchContext(c) before any slice of core c, gives a slice only to a
\* core whose context can run, and the passes repeat until
\* CanCurrentContextRun is false for all four cores.
C13_RotationUntilAllIdle ==
    /\ C13_Rotation
    /\ (pc = "idle" /\ passes >= 1) => ~keep_running

\* C13 amended: every pass visits the cores in the order 0,1,2,3, calls
\* SwitchContext(c) before any slice of core c, gives a slice only to a
\* core whose context can run, and the passes repeat until
\* CanCurrentContextRun is false for all four cores or num_loops, the count
\* of the passes that ended with the debugger connected, is not below
\* gdbstub_loops.
C13_RotationUntilAllIdleOrBound ==
    /\ C13_Rotation
    /\ (pc = "idle" /\ passes >= 1)
         => (~keep_running \/ num_loops >= max_loops)

\* an unconnected call has returned after several passes, the last of
\* which visited the four cores and gave a slice to core 3
C13_Witness ==
    /\ pc = "idle"
    /\ passes >= 2
    /\ ~connected
    /\ ~keep_running
    /\ switched = <<0, 1, 2, 3>>
    /\ PassSlice
    /\ slice.core = 3

\* C16: when the current thread's step flag is set and halt_flag is clear,
\* RunLoop calls GDBStub::Break before the instruction is executed: Break
\* precedes ArchCore.Step, and ArchCore.Run is not called even if tight
\* was true.
C16_BreakBeforeStep ==
    ( /\ slice.called
      /\ ~slice.entry_halt
      /\ slice.sched_thread # NoThread
      /\ GetThreadStepFlag(step_flags, slice.sched_thread) )
    => LET c == slice.calls
       IN /\ Positions(c, "Break") # {}
          /\ Positions(c, "Step") # {}
          /\ \A i \in Positions(c, "Break"), j \in Positions(c, "Step") :
                i < j
          /\ Count(c, "Run") = 0

\* a RunLoop(true) call of a pass stepped a thread whose step flag was set
C16_Witness ==
    /\ PassSlice
    /\ tight_loop
    /\ ~slice.entry_halt
    /\ slice.sched_thread # NoThread
    /\ GetThreadStepFlag(step_flags, slice.sched_thread)
    /\ Positions(slice.calls, "Step") # {}

\* the record of a SingleStep call
SingleStepSlice == slice.called /\ slice.via = "SingleStep"

\* C17: SingleStep is equivalent to RunLoop(false): from the same current
\* thread, halt_flag and step flags it makes the calls RunLoop(false) makes
\* and leaves the halt_flag RunLoop(false) leaves.
C17_SingleStepIsRunLoopFalse ==
    SingleStepSlice
    => LET path == RunLoopPath(slice.sched_thread, slice.entry_halt,
                               step_flags, FALSE)
       IN /\ slice.calls = RunLoopCalls(path)
          /\ halt_flag = RunLoopHalt(path, slice.entry_halt)

\* a SingleStep call executed an instruction of a thread
C17_Witness ==
    /\ SingleStepSlice
    /\ slice.sched_thread # NoThread
    /\ ~slice.entry_halt
    /\ ~GetThreadStepFlag(step_flags, slice.sched_thread)
    /\ Count(slice.calls, "Step") = 1

C20_HaltClearedOnlyByContinue ==
    [][(halt_flag /\ ~halt_flag')
        => \E tight \in BOOLEAN, p \in Packets :
              p.kind = "continue" /\ RunLoopEnterWith(tight, p)]_vars

\* halt_flag is still set in the second pass of a call, after a slice that
\* was entered with it set
C20_Witness ==
    /\ halt_flag
    /\ pc = "pass"
    /\ passes >= 1
    /\ PassSlice
    /\ slice.entry_halt

\* ------------------------------------------------------------------ claims (SpecMC, SpecSD)

Inside(h) == rpc[h] # "out"

InReschedule(h) == rpc[h] \in {"r1sw", "r2sw"}

\* C3: at most one host thread is inside the RunLoop of a core at any time.
C3_OneDriverPerCore ==
    \A c \in Cores :
        Cardinality({h \in HostThreads : Inside(h) /\ CoreOf(h) = c}) <= 1

\* C4: in multi-core mode a helper thread that has started and is not yet
\* joined finds its id in thread_to_cpu.
C4_HelperLookupSucceeds ==
    \A h \in HelperThreads :
        (use_multi_core /\ hst[h] \in {"running", "exited"})
        => GetCurrentCoreFound(h)

\* C6: a host thread holds the global kernel lock only inside Reschedule:
\* never in Idle, Run, Step or Advance, nor between the calls of RunLoop, nor
\* once its RunLoop call has returned.
C6_LockOnlyInReschedule ==
    \A h \in HostThreads : hle_lock = h => InReschedule(h)

\* a helper thread is inside ArchCore.Run (its current thread is neither
\* halted nor stepped) while another host thread holds the lock
C6_Witness ==
    \E h \in HelperThreads :
        /\ rpc[h] = "exec"
        /\ current[h] # NoThread
        /\ ~halt_flag
        /\ hle_lock \in HostThreads \ {h}

\* the steps of Reschedule that call into the scheduler
C7_SchedulerCall(h) ==
    \/ rpc[h] \in {"r1", "r2"} /\ InReschedule(h)'
    \/ InReschedule(h) /\ ~InReschedule(h)'

C7_Mutex ==
    /\ Cardinality({h \in HostThreads : InReschedule(h)}) <= 1
    /\ \A h \in HostThreads : InReschedule(h) => hle_lock = h

C7_NoInterleaving ==
    \A h \in HostThreads :
        (InReschedule(h) /\ InReschedule(h)')
        => \A g \in HostThreads \ {h} : ~C7_SchedulerCall(g)

\* C7: at most one host thread is between acquiring and releasing the
\* global kernel lock, and while a thread is between its SelectThread and
\* its TryDoContextSwitch no other thread calls SelectThread or
\* TryDoContextSwitch.
C7_RescheduleIsExclusive ==
    [](C7_Mutex) /\ [][C7_NoInterleaving]_vars

\* a helper thread is between SelectThread and TryDoContextSwitch while
\* another helper thread and the manager thread wait for the lock
C7_Witness ==
    /\ use_multi_core
    /\ InReschedule(1)
    /\ rpc[2] \in {"r1", "r2"}
    /\ rpc[MainThread] \in {"r1", "r2"}

\* a step of Shutdown that removes map entries or destroys the cores, the
\* exclusive monitor or the barrier
C14_Teardown ==
    /\ pc \in {"sd_clear", "sd_destroy", "sd_monitor", "sd_barrier"}
    /\ pc' # pc

\* the effects of Shutdown happen in its steps, and the steps follow each
\* other in the order NotifyEnd, joins, clear, cores, monitor, barrier
C14_Order ==
    /\ (barrier # "Ending" /\ barrier' = "Ending") => pc = "sd_notify"
    /\ (\E h \in HelperThreads : hst[h] # "joined" /\ hst'[h] = "joined")
         => pc = "sd_join"
    /\ ~(thread_to_cpu \subseteq thread_to_cpu') => pc = "sd_clear"
    /\ (cores_alive /\ ~cores_alive') => pc = "sd_destroy"
    /\ (barrier # "none" /\ barrier' = "none") => pc = "sd_barrier"
    /\ (pc = "sd_notify" /\ pc' # pc)
         => pc' = (IF use_multi_core THEN "sd_join" ELSE "sd_clear")
    /\ (pc = "sd_join" /\ pc' # pc)
         => (pc' = "sd_clear" /\ \A h \in HelperThreads : hst'[h] = "joined")
    /\ (pc = "sd_clear" /\ pc' # pc) => pc' = "sd_destroy"
    /\ (pc = "sd_destroy" /\ pc' # pc) => pc' = "sd_monitor"
    /\ (pc = "sd_monitor" /\ pc' # pc) => pc' = "sd_barrier"
    /\ (pc = "sd_barrier" /\ pc' # pc) => pc' = "off"

\* C14: Shutdown performs its steps in the order NotifyEnd, join the helper
\* threads, clear thread_to_cpu, destroy the cores, the exclusive monitor,
\* the barrier; no map entry is removed and nothing is destroyed while a
\* helper thread is running or inside a RunLoop call.
C14_ShutdownOrder ==
    [][ /\ C14_Order
        /\ C14_Teardown
             => \A h \in HelperThreads :
                   ~Inside(h) /\ hst[h] # "running" ]_vars

\* a multi-core manager has been shut down: the helper threads, which had
\* been inside RunLoop calls after NotifyEnd, are joined, the map is empty,
\* the cores and the barrier are gone
C14_Witness ==
    /\ use_multi_core
    /\ pc = "off"
    /\ \A h \in HelperThreads : hst[h] = "joined" /\ after_end[h] = 1
    /\ thread_to_cpu = {}
    /\ ~cores_alive
    /\ barrier = "none"

\* C15: between the first Reschedule of a RunLoop call on core c and its
\* final Reschedule, the current thread T of core c does not change.
C15_CurrentThreadStable ==
    [][\A h \in HostThreads :
          (rpc[h] \in {"dec", "exec", "r2"} /\ current[CoreOf(h)] # NoThread)
          => current'[CoreOf(h)] = current[CoreOf(h)]]_vars

\* C19: a RunLoop call of the manager invokes HandlePacket once, before
\* ResetRun and before every slice of the call.  (keep_running is false
\* when RunLoop is entered; it is true at the head of the loop only when a
\* pass of this call has ended.)
C19_HandlePacketOnceAtCallHead ==
    pc = "rl_hp" => ~keep_running

\* the range a successful CheckAndClear wrote: the reservation it matched
C21_Written(d) ==
    Overlaps(reservations[d].addr, reservations[d].width,
             reservations[last_check'.core].addr,
             reservations[last_check'.core].width)

\* C24: a protocol error in HandlePacket sets connected to false and leaves
\* halt_flag as it was, and the slices that follow are governed by that
\* value: when it was set every slice finds the CPU halted and executes
\* nothing; when it was clear the flag stays clear until a slice issues
\* Break, and a slice that finds it clear with a thread scheduled executes
\* one Run or Step.
C24_ProtocolError ==
    /\ [][\A tight \in BOOLEAN :
            (server_enabled
             /\ RunLoopEnterWith(tight, [kind |-> "error",
                                         thread |-> NoThread]))
            => ~connected' /\ halt_flag' = halt_flag]_vars
    /\ [](error_halt # "none" => ~connected)
    /\ [](error_halt = "set"
            => /\ halt_flag
               /\ slice.called
                    => slice.entry_halt /\ Executed(slice.calls) = 0)
    /\ [](error_halt = "clear"
            => /\ halt_flag <=> broke
               /\ (slice.called /\ slice.entry_halt) => broke
               /\ (slice.called /\ ~slice.entry_halt
                    /\ slice.sched_thread # NoThread)
                    => Executed(slice.calls) = 1)

\* a protocol error found the CPU halted, and a later slice of a core with a
\* thread scheduled executed nothing
C24_Witness ==
    /\ error_halt = "set"
    /\ ~connected
    /\ slice.called
    /\ slice.sched_thread # NoThread
    /\ Executed(slice.calls) = 0

\* C26: once a slice has issued Break, halt_flag stays set and no later
\* slice calls Run or Step until a continue packet clears the flag; the
\* slice that issues Break still executes its one Step, because the flag is
\* read at the start of a slice only.
C26_NoExecutionAfterBreak ==
    /\ [](broke => halt_flag)
    /\ []((broke /\ slice.called)
            => IF Count(slice.calls, "Break") = 1
               THEN ~slice.entry_halt /\ Executed(slice.calls) = 1
               ELSE slice.entry_halt /\ Executed(slice.calls) = 0)
    /\ [][(broke /\ ~broke')
            => \E tight \in BOOLEAN, p \in Packets :
                  p.kind = "continue" /\ RunLoopEnterWith(tight, p)]_vars

\* a later pass of the call in which a slice issued Break dispatched a core
\* with a thread, and the slice executed nothing
C26_Witness ==
    /\ broke
    /\ pc = "pass"
    /\ passes >= 1
    /\ slice.called
    /\ slice.via = "CpuManager"
    /\ slice.sched_thread # NoThread
    /\ Count(slice.calls, "Break") = 0
    /\ Executed(slice.calls) = 0

\* C21: a CheckAndClear of core A succeeds only when a matching reservation
\* of A exists, and never when another core has stored to a range
\* overlapping A's reservation since A's Reserve; a successful call clears
\* A's reservation and every other core's overlapping reservation, and no
\* other.
C21_StoreConditional ==
    /\ [](last_check.made
           => /\ last_check.result => last_check.matched
              /\ last_check.was_stale => ~last_check.result)
    /\ [][(last_check' # last_check /\ last_check'.result)
           => /\ reservations'[last_check'.core] = NoReservation
              /\ \A d \in Cores :
                    reservations'[d] =
                      IF C21_Written(d) THEN NoReservation
                      ELSE reservations[d]]_vars

\* core 0 reserved, another core stored over the reservation, and the
\* CheckAndClear of core 0 failed
C21_Witness ==
    /\ last_check.made
    /\ last_check.core = 0
    /\ last_check.was_stale
    /\ ~last_check.result
    /\ reservations[1] # NoReservation

C23_AtOrAbove(addr, type) ==
    {bp \in breakpoints : bp.type = type /\ bp.address >= addr}

\* C23: GetNextBreakpointFromAddress(addr,type) returns the stored
\* breakpoint of that type with the smallest address not below addr, and
\* the sentinel {0, None} exactly when there is none.
C23_NextBreakpoint ==
    bp_last.op = "next"
    => LET cand == C23_AtOrAbove(bp_last.address, bp_last.type)
       IN /\ (bp_last.found = Sentinel) <=> (cand = {})
          /\ cand # {}
               => /\ bp_last.found \in cand
                  /\ \A bp \in cand : bp_last.found.address <= bp.address

\* a query from an address that holds a breakpoint of the type itself,
\* with another one above it and one of another type below it
C23_Witness ==
    /\ bp_last.op = "next"
    /\ bp_last.address = 1
    /\ bp_last.found = [address |-> 1, type |-> bp_last.type]
    /\ [address |-> 2, type |-> bp_last.type] \in breakpoints
    /\ \E bp \in breakpoints : bp.address = 0 /\ bp.type # bp_last.type

\* C27: every CpuManager::RunLoop call returns: a call that is in its
\* dispatch loop is eventually back at its caller.
C27_RunLoopReturns == (pc = "pass") ~> (pc = "idle")

\* C25: once the Barrier is Ending it is Ending in every later state, a
\* NotifyEnd on an Ending barrier changes nothing, a Wait that starts while
\* it is Ending returns without suspending, and a Wait that is suspended
\* when it is Ending returns.
C25_BarrierMonotone ==
    /\ [][bar_state = "Ending" => bar_state' = "Ending"]_vars
    /\ [][(bar_state = "Ending" /\ BarNotifyEnd) => UNCHANGED vars]_vars
    /\ [][\A h \in HostThreads :
            (bar_state = "Ending" /\ ~bar_wait[h]) => ~bar_wait'[h]]_vars
    /\ \A h \in HostThreads :
          (bar_state = "Ending" /\ bar_wait[h]) ~> ~bar_wait[h]

\* the barrier is Ending with one thread still suspended in Wait, and
\* another thread has returned from two Wait calls
C25_Witness ==
    /\ bar_state = "Ending"
    /\ \E h \in HostThreads : bar_wait[h]
    /\ \E h \in HostThreads : ~bar_wait[h] /\ bar_done[h] = 2

\* C28: no step that writes thread_to_cpu (the insertions of StartThreads,
\* the assignment at the entry of RunLoop, the clear of Shutdown) is taken
\* while a helper thread is running.
C28_NoWriteWhileHelpersRun ==
    [][(StartThreads \/ InsertThread \/ McRunLoopEnter \/ ClearMap)
        => \A h \in HelperThreads : hst[h] # "running"]_vars

\* C29: whatever the setting is at each call and whether or not
\* StartThreads was called, Shutdown never joins through an entry that holds
\* no thread, and once its join loop is over every helper thread that was
\* spawned has been joined.
C29_ShutdownJoinsTheSpawned ==
    /\ ~null_join
    /\ pc \in {"sd_clear", "sd_destroy", "sd_monitor", "sd_barrier", "off"}
         => \A h \in HelperThreads : hst[h] \in {"none", "joined"}

\* C30: the sessions AcceptSession has returned, followed by those
\* CleanupSessions closed and those still in the list, are the sessions
\* passed to EnqueueSession in the order of the calls; an AcceptSession that
\* returns a session has unlinked it, and one that finds the list empty
\* returns null and changes nothing.
C30_Fifo ==
    /\ [](acc_log \o closed_log \o session_list = enq_log)
    /\ []((port_last.op = "accept" /\ port_last.session # NoSession)
            => /\ acc_log[Len(acc_log)] = port_last.session
               /\ ~Linked(session_list, port_last.session))
    /\ [][(PortAccept /\ session_list = <<>>)
            => /\ port_last'.session = NoSession
               /\ UNCHANGED <<session_list, port_destroyed, enq_log,
                              acc_log, closed_log>>]_vars
    /\ [][(PortAccept /\ session_list # <<>>)
            => /\ port_last'.session = enq_log[Len(acc_log) + 1]
               /\ Len(session_list') = Len(session_list) - 1]_vars

\* the second accept returned the session enqueued second, a session
\* enqueued for the second time waits behind a third one
C30_Witness ==
    /\ port_last.op = "accept"
    /\ Len(acc_log) = 2
    /\ Len(session_list) = 2
    /\ acc_log[1] # acc_log[2]
    /\ port_last.session = enq_log[2]
    /\ session_list[2] = acc_log[1]

\* the ways session s has left the list, or is still on it
C31_Places(s) ==
    Count(acc_log, s) + Count(closed_log, s)
    + (IF cl_session = s THEN 1 ELSE 0)
    + (IF Linked(session_list, s) THEN 1 ELSE 0)

\* C31: under every interleaving each enqueued session is in exactly one
\* place: on the list, returned by one AcceptSession, taken by
\* CleanupSessions or closed once by it; Close is never called with the
\* scheduler lock held; a CleanupSessions call during which no
\* EnqueueSession linked a session ends with the list empty, and every
\* CleanupSessions call ends.
C31_LeavesOnce ==
    /\ [](\A s \in Sessions : C31_Places(s) = Count(enq_log, s))
    /\ [](\A s \in Sessions : Count(enq_log, s) <= 1)
    /\ [](~close_locked)
    /\ [][(cl_pc # "done" /\ cl_pc' = "done" /\ Len(enq_log) = cl_start)
            => session_list' = <<>>]_vars
    /\ (cl_pc = "lock") ~> (cl_pc = "done")

\* CleanupSessions holds a session it is about to close after it closed
\* one and AcceptSession returned another
C31_Witness ==
    /\ cl_pc = "close"
    /\ cl_session # NoSession
    /\ closed_log # <<>>
    /\ acc_log # <<>>

\* C32: an EnqueueSession call calls NotifyAvailable exactly when the port
\* was not signaled before it, that is when the list was empty, and the
\* port is signaled after it.
C32_NotifyOnFirst ==
    /\ [][PortEnqueue
            => /\ port_last'.notified = ~IsSignaled(session_list)
               /\ IsSignaled(session_list')]_vars
    /\ []((port_last.op = "enqueue" /\ port_last.notified)
            => session_list = <<port_last.session>>)

\* an enqueue that did not notify, made after the list had been emptied by
\* accepts and filled again
C32_Witness ==
    /\ port_last.op = "enqueue"
    /\ ~port_last.notified
    /\ Len(acc_log) >= 1
    /\ Len(session_list) = 2

\* the events GetFreeEvent may return: the mask bit is clear and the status
\* is Free or Registered
C33_FreeEvents ==
    {i \in AllEvents :
        /\ i \notin events_mask
        /\ StatusOf(status, rest_status, i) \in {"Free", "Registered"}}

\* C33: GetFreeEvent returns the lowest event index whose events_mask bit
\* is clear and whose status is Free or Registered, 0xFFFFFFFF when there
\* is none, and never an event whose status is Waiting or Busy.
C33_GetFreeEvent ==
    ev_last.op = "get"
    => /\ (ev_last.result = NoFreeEvent) <=> (C33_FreeEvents = {})
       /\ C33_FreeEvents # {}
            => /\ ev_last.result \in C33_FreeEvents
               /\ \A i \in C33_FreeEvents : ev_last.result <= i
       /\ ev_last.result # NoFreeEvent
            => StatusOf(status, rest_status, ev_last.result)
                 \notin {"Waiting", "Busy"}

\* GetFreeEvent returned event 31, which is Registered, and passed over
\* event 0, whose mask bit is clear but which is Waiting or Busy
C33_Witness ==
    /\ ev_last.op = "get"
    /\ ev_last.result = IntBits - 1
    /\ status[IntBits - 1] = "Registered"
    /\ 0 \notin events_mask
    /\ status[0] \in {"Waiting", "Busy"}

\* C34: SetEventStatus(event_id, Waiting or Busy) that changes the status
\* sets bit event_id of events_mask and no other, and LiberateEvent(event_id)
\* clears bit event_id and no other.
C34_ExactBit ==
    [][\A i \in EventIds :
         /\ \A s \in {"Waiting", "Busy"} :
              (status[i] # s /\ SetEventStatus(i, s))
              => events_mask' = events_mask \cup {i}
         /\ LiberateEvent(i) => events_mask' = events_mask \ {i}]_vars

\* C35: an event whose status is Registered has registered set, and an
\* event whose events_mask bit is set has status Waiting or Busy.
C35_StatusAgrees ==
    /\ \A i \in EventIds : status[i] = "Registered" => registered[i]
    /\ \A i \in AllEvents :
          i \in events_mask
          => StatusOf(status, rest_status, i) \in {"Waiting", "Busy"}

\* C36: once JoinThreads has cleared the flags no worker thread is started,
\* no thread member is inside join() of two threads at once, and when
\* JoinThreads has returned both worker threads have ended and been joined.
C36_ShutdownJoinsBoth ==
    /\ [](Cardinality(scan_joiners) <= 1 /\ Cardinality(input_joiners) <= 1)
    /\ [](join_pc = "done"
            => adapter_scan_thread = "empty" /\ adapter_input_thread = "empty")
    /\ [][join_pc # "idle"
            => /\ adapter_scan_thread' = "running"
                    => adapter_scan_thread = "running"
               /\ adapter_input_thread' = "running"
                    => adapter_input_thread = "running"]_vars

\* C37: vibration_counter stays in 0 .. 7, and over 8 consecutive calls of
\* UpdateVibrations with a pad's amplitude unchanged at a, the pad's
\* enable_vibration is true after exactly min(a, 8) of them.
C37_DutyCycle ==
    /\ vibration_counter \in 0 .. vibration_states - 1
    /\ \A p \in Ports :
         Len(vib_log[p]) = vibration_states
            => CountOn(vib_log[p])
                 = (IF rumble_amplitude[p] < vibration_states
                    THEN rumble_amplitude[p]
                    ELSE vibration_states)

\* eight calls with the amplitude at 2, made from a counter that was not 0
C37_Witness ==
    \E p \in Ports :
        /\ Len(vib_log[p]) = vibration_states
        /\ rumble_amplitude[p] = 2
        /\ vibration_counter = 3
        /\ CountOn(vib_log[p]) = 2

\* C38: every addPaths call of DonePopulating hands over at most SLICE_SIZE
\* paths, the calls hand over at most LIMIT_WATCH_DIRECTORIES paths in
\* total, and when the loop has ended the slices handed over are, in
\* order and without overlap, the first min(length,
\* LIMIT_WATCH_DIRECTORIES) entries of the watch list.
C38_ChunkedAndCapped ==
    /\ \A k \in 1 .. Len(add_log) : add_log[k].count <= SLICE_SIZE
    /\ Handed(add_log) <= LIMIT_WATCH_DIRECTORIES
    /\ \A k \in 1 .. Len(add_log) :
         add_log[k].pos = Handed(SubSeq(add_log, 1, k - 1))
    /\ dp_pc = "idle"
         => Handed(add_log) = Min(watch_length, LIMIT_WATCH_DIRECTORIES)

\* C10: once NotifyEnd has been called each helper thread begins at most one
\* further RunLoop call, and the joins of Shutdown complete.
C10_HelpersLeaveAndAreJoined ==
    /\ [](\A h \in HelperThreads : after_end[h] <= 1)
    /\ (use_multi_core /\ barrier = "Ending")
         ~> (\A h \in HelperThreads : hst[h] = "joined")

\* all helper threads are joined, one of them after a RunLoop call it began
\* after NotifyEnd
C10_Witness ==
    /\ use_multi_core
    /\ pc = "sd_clear"
    /\ \A h \in HelperThreads : hst[h] = "joined"
    /\ \E h \in HelperThreads : after_end[h] = 1

====
